---------------------------- MODULE Spec2Model ----------------------------
(***************************************************************************)
(* ParseFlow: record normalisation, duplicate detection and import.        *)
(*                                                                         *)
(*   ParseFlowDB            dashboard database (field-by-field comparison) *)
(*   LocalStorageDatabase   per-parser database (hash comparison)          *)
(*                                                                         *)
(* JavaScript strings are sequences of UTF-16 code units; JavaScript       *)
(* values are tagged records; a record (row) is a function from field name *)
(* to value.                                                               *)
(***************************************************************************)
EXTENDS Integers, Sequences, FiniteSets, TLC

(***************************************************************************)
(* Bounds of the model.                                                    *)
(***************************************************************************)
MaxBatch   == 2      \* longest batch handed to addRecords
MaxRecords == 3      \* largest store that still accepts an import
MaxClock   == 3      \* number of imports / edits in one behaviour
MaxQuota   == 2      \* records the browser's localStorage quota has room for
MaxPad     == 1      \* longest run of whitespace around a string value
CardsPerPage == 1    \* cards on a page of the card view

(***************************************************************************)
(* Strings.                                                                *)
(***************************************************************************)
CharCode ==
    (" " :> 32) @@ ("\"" :> 34) @@ ("-" :> 45) @@ ("/" :> 47) @@
    ("0" :> 48) @@ ("1" :> 49) @@ ("2" :> 50) @@ ("3" :> 51) @@ ("4" :> 52) @@
    ("5" :> 53) @@ ("6" :> 54) @@ ("7" :> 55) @@ ("8" :> 56) @@ ("9" :> 57) @@
    (":" :> 58) @@ ("A" :> 65) @@ ("B" :> 66) @@ ("C" :> 67) @@ ("D" :> 68) @@ ("L" :> 76) @@
    ("N" :> 78) @@ ("O" :> 79) @@ ("P" :> 80) @@ ("U" :> 85) @@ ("X" :> 88) @@ ("Y" :> 89) @@ ("\\" :> 92) @@ ("_" :> 95) @@
    ("a" :> 97) @@ ("b" :> 98) @@ ("c" :> 99) @@ ("d" :> 100) @@ ("e" :> 101) @@
    ("f" :> 102) @@ ("g" :> 103) @@ ("h" :> 104) @@ ("i" :> 105) @@
    ("k" :> 107) @@ ("l" :> 108) @@ ("m" :> 109) @@ ("n" :> 110) @@
    ("o" :> 111) @@ ("p" :> 112) @@ ("r" :> 114) @@ ("s" :> 115) @@
    ("t" :> 116) @@ ("u" :> 117) @@ ("w" :> 119) @@ ("x" :> 120) @@ ("y" :> 121) @@ ("z" :> 122) @@
    ("|" :> 124)

\* the string whose characters are cs, as code units
S(cs) == [i \in 1..Len(cs) |-> CharCode[cs[i]]]

\* String.prototype.toLowerCase on the ASCII range
LowerChar(c) == IF c >= 65 /\ c <= 90 THEN c + 32 ELSE c

toLowerCase(s) == [i \in 1..Len(s) |-> LowerChar(s[i])]

UpperChar(c) == IF c >= 97 /\ c <= 122 THEN c - 32 ELSE c

\* String.prototype.toUpperCase
toUpperCase(s) == [i \in 1..Len(s) |-> UpperChar(s[i])]

\* WhiteSpace and LineTerminator code units below 128
IsWhiteSpace(c) == c \in {9, 10, 11, 12, 13, 32}

RECURSIVE trimStart(_)
trimStart(s) ==
    IF s # <<>> /\ IsWhiteSpace(Head(s)) THEN trimStart(Tail(s)) ELSE s

RECURSIVE trimEnd(_)
trimEnd(s) ==
    IF s # <<>> /\ IsWhiteSpace(s[Len(s)])
    THEN trimEnd(SubSeq(s, 1, Len(s) - 1))
    ELSE s

\* String.prototype.trim
trim(s) == trimEnd(trimStart(s))

\* key.startsWith('_')
startsWithUnderscore(key) == key # <<>> /\ key[1] = 95

RECURSIVE DigitsOf(_)
DigitsOf(n) ==
    IF n < 10 THEN <<48 + n>> ELSE Append(DigitsOf(n \div 10), 48 + (n % 10))

\* Number.prototype.toString for an integer
NumberToString(n) == IF n < 0 THEN <<45>> \o DigitsOf(0 - n) ELSE DigitsOf(n)

(***************************************************************************)
(* JavaScript values.                                                      *)
(***************************************************************************)
Null      == [t |-> "null"]
Undefined == [t |-> "undefined"]
Str(s)    == [t |-> "string", s |-> s]
Num(n)    == [t |-> "number", n |-> n]
Bool(b)   == [t |-> "boolean", b |-> b]
\* an object with the own properties o
Obj(o)    == [t |-> "object", o |-> o]

IsNullish(v) == v.t \in {"null", "undefined"}

\* record[key]: a missing property reads as undefined
Get(record, key) == IF key \in DOMAIN record THEN record[key] ELSE Undefined

\* { ...a, ...b }
Spread(a, b) ==
    [k \in (DOMAIN a) \cup (DOMAIN b) |-> IF k \in DOMAIN b THEN b[k] ELSE a[k]]

\* DataKeys without the filter: metadata keys are compared too
DataKeys_Unfiltered(record) == DOMAIN record

\* Object.keys(record).filter(key => !key.startsWith('_'))
DataKeys(record) == {k \in DOMAIN record : ~startsWithUnderscore(k)}


(***************************************************************************)
(* Sorting of keys and JSON.stringify.                                     *)
(***************************************************************************)
\* a < b or a = b in the order of Array.prototype.sort on strings
RECURSIVE stringLeq(_, _)
stringLeq(a, b) ==
    IF a = <<>> THEN TRUE
    ELSE IF b = <<>> THEN FALSE
    ELSE IF Head(a) < Head(b) THEN TRUE
    ELSE IF Head(a) > Head(b) THEN FALSE
    ELSE stringLeq(Tail(a), Tail(b))

RECURSIVE sortKeys(_)
sortKeysFrom(first, keys) == <<first>> \o sortKeys(keys \ {first})

\* Object.keys(record).sort(), given the key set
sortKeys(keys) ==
    IF keys = {} THEN <<>>
    ELSE sortKeysFrom(CHOOSE m \in keys : \A k \in keys : stringLeq(m, k), keys)

\* JSON.stringify of a string: the characters, with '"' and '\' escaped
RECURSIVE escapeString(_)
escapeString(s) ==
    IF s = <<>> THEN <<>>
    ELSE (IF Head(s) \in {34, 92} THEN <<92, Head(s)>> ELSE <<Head(s)>>)
         \o escapeString(Tail(s))

\* `${JSON.stringify(value)}`
stringify(value) ==
    IF value.t = "string" THEN <<34>> \o escapeString(value.s) \o <<34>>
    ELSE IF value.t = "number" THEN NumberToString(value.n)
    ELSE IF value.t = "boolean"
         THEN (IF value.b THEN S(<<"t","r","u","e">>) ELSE S(<<"f","a","l","s","e">>))
    ELSE IF value.t = "null" THEN S(<<"n","u","l","l">>)
    ELSE S(<<"u","n","d","e","f","i","n","e","d">>)

\* a plain object as a field value: its own properties in insertion order,
\* each entry a key k and a value v, no key twice
PlainObject(entries) == [t |-> "plain", entries |-> entries]

\* an array as a field value
Array(items) == [t |-> "array", items |-> items]

\* obj[key] for a key obj has
valueAt(obj, key) ==
    obj.entries[CHOOSE i \in 1..Len(obj.entries) : obj.entries[i].k = key].v

\* JSON.stringify leaves out a property whose value is undefined
IsDefinedEntry(entry) == entry.v.t # "undefined"

\* JSON.stringify(value)
RECURSIVE jsonStringify(_)
RECURSIVE jsonMembers(_)
RECURSIVE jsonElements(_)
jsonStringify(value) ==
    IF value.t = "plain"
    THEN <<123>> \o jsonMembers(SelectSeq(value.entries, IsDefinedEntry)) \o <<125>>
    ELSE IF value.t = "array"
    THEN <<91>> \o jsonElements(value.items) \o <<93>>
    ELSE stringify(value)

\* the members of an object, between the braces
jsonMembers(entries) ==
    IF entries = <<>> THEN <<>>
    ELSE <<34>> \o escapeString(Head(entries).k) \o <<34, 58>>
         \o jsonStringify(Head(entries).v)
         \o (IF Len(entries) > 1 THEN <<44>> ELSE <<>>)
         \o jsonMembers(Tail(entries))

\* the elements of an array, between the brackets: undefined reads null
jsonElements(items) ==
    IF items = <<>> THEN <<>>
    ELSE (IF Head(items).t = "undefined" THEN S(<<"n","u","l","l">>)
          ELSE jsonStringify(Head(items)))
         \o (IF Len(items) > 1 THEN <<44>> ELSE <<>>)
         \o jsonElements(Tail(items))

\* sortObjectKeys that leaves every object as it is
sortObjectKeys_Unsorted(obj) == obj

\* ParseFlowDB.sortObjectKeys
RECURSIVE sortObjectKeys(_)
sortObjectKeys(obj) ==
    IF obj.t = "array"
    THEN Array([i \in 1..Len(obj.items) |-> sortObjectKeys(obj.items[i])])
    ELSE IF obj.t = "plain"
    THEN PlainObject(
            [i \in 1..Len(obj.entries) |->
                [k |-> sortKeys({obj.entries[m].k : m \in 1..Len(obj.entries)})[i],
                 v |-> sortObjectKeys(valueAt(obj,
                          sortKeys({obj.entries[m].k : m \in 1..Len(obj.entries)})[i]))]])
    ELSE obj

(***************************************************************************)
(* ParseFlowDB: Record Normalizer.                                         *)
(***************************************************************************)
\* the strings normalizeValue compares the trimmed, lower-cased input with
SentinelsLower == {S(<<"n","u","l","l">>),
                   S(<<"u","n","d","e","f","i","n","e","d">>),
                   S(<<"n","/","a">>)}

Dash == S(<<"-">>)

\* normalizeString with the sentinels compared without toLowerCase()
normalizeString_CaseSensitive(trimmed) ==
    IF \/ trimmed = <<>>
       \/ trimmed \in SentinelsLower
       \/ trimmed = Dash
    THEN Null
    ELSE Str(toLowerCase(trimmed))

\* normalizeValue, the typeof value === 'string' branch, value.trim() taken
normalizeString(trimmed) ==
    IF \/ trimmed = <<>>
       \/ toLowerCase(trimmed) \in SentinelsLower
       \/ trimmed = Dash
    THEN Null
    ELSE Str(toLowerCase(trimmed))

\* ParseFlowDB.normalizeValue. The first typeof value === 'string' branch
\* returns on every path, so the later string branches (parseFloat, string
\* booleans) are never taken; Date values are not part of the value
\* universe of this model.
normalizeValue(value) ==
    IF value.t \in {"null", "undefined"} THEN Null
    ELSE IF value.t = "string" THEN normalizeString(trim(value.s))
    ELSE IF value.t = "number" THEN value
    ELSE IF value.t = "boolean" THEN value
    ELSE IF value.t \in {"plain", "array"}
    THEN Str(jsonStringify(sortObjectKeys(value)))
    ELSE value

(***************************************************************************)
(* ParseFlowDB: Duplicate Detector.                                        *)
(***************************************************************************)
\* valuesAreEqual in which a null first value equals everything
valuesAreEqual_NullFirst(value1, value2) ==
    IF IsNullish(value1) THEN TRUE ELSE value1 = value2

\* ParseFlowDB.valuesAreEqual
valuesAreEqual(value1, value2) ==
    IF IsNullish(value1) /\ IsNullish(value2) THEN TRUE
    ELSE IF IsNullish(value1) # IsNullish(value2) THEN FALSE
    ELSE value1 = value2

\* compareFields without the keys1.length !== keys2.length rejection
compareFields_NoCount(record1, record2, keys1, keys2) ==
    \A key \in keys1 \cup keys2 :
        valuesAreEqual(normalizeValue(Get(record1, key)),
                       normalizeValue(Get(record2, key)))

\* compareFields that rejects records whose field names differ
compareFields_SameNames(record1, record2, keys1, keys2) ==
    IF keys1 # keys2 THEN FALSE
    ELSE \A key \in keys1 \cup keys2 :
            valuesAreEqual(normalizeValue(Get(record1, key)),
                           normalizeValue(Get(record2, key)))

\* recordsAreIdentical once keys1 and keys2 are taken
compareFields(record1, record2, keys1, keys2) ==
    IF Cardinality(keys1) # Cardinality(keys2) THEN FALSE
    ELSE \A key \in keys1 \cup keys2 :
            valuesAreEqual(normalizeValue(Get(record1, key)),
                           normalizeValue(Get(record2, key)))

\* recordsAreIdentical that filters the metadata keys of record2 only
recordsAreIdentical_OneSided(record1, record2) ==
    compareFields(record1, record2, DOMAIN record1, DataKeys(record2))

\* ParseFlowDB.recordsAreIdentical
recordsAreIdentical(record1, record2) ==
    compareFields(record1, record2, DataKeys(record1), DataKeys(record2))

(***************************************************************************)
(* Field names and the rows the uploaded files are made of.                *)
(***************************************************************************)
K_name      == S(<<"n","a","m","e">>)
K_age       == S(<<"a","g","e">>)
K_id        == S(<<"_","i","d">>)
K_source    == S(<<"_","s","o","u","r","c","e">>)
K_dateAdded == S(<<"_","d","a","t","e","A","d","d","e","d">>)
K_index     == S(<<"_","i","n","d","e","x">>)

\* {name:"A"}, {name:"A",age:"30"}, {name:"A",age:30}, {name:"A",age:"26"}
Row_A    == (K_name :> Str(S(<<"A">>)))
Row_A30s == (K_name :> Str(S(<<"A">>))) @@ (K_age :> Str(S(<<"3","0">>)))
Row_A30n == (K_name :> Str(S(<<"A">>))) @@ (K_age :> Num(30))
Row_A26s == (K_name :> Str(S(<<"A">>))) @@ (K_age :> Str(S(<<"2","6">>)))

Rows == {Row_A, Row_A30s, Row_A30n, Row_A26s}

\* the arrays parseFile can yield from the items in items: at most MaxBatch long
BatchesOf(items) == UNION {[1..n -> items] : n \in 0..MaxBatch}

\* the batches a parsed file can hold: at most MaxBatch rows
Batches == BatchesOf({Obj(row) : row \in Rows})

FileNames == {S(<<"a">>), S(<<"b">>)}

(***************************************************************************)
(* State.                                                                  *)
(***************************************************************************)
VARIABLES
    files,          \* file name -> the rows parseFile yields for it
    data,           \* ParseFlowDB.data: records and metadata
    ls,             \* LocalStorageDatabase: this.records and this.metadata
    localStorage,   \* key -> persisted item
    clock,          \* Date.now(), in ticks
    nextId,         \* number of ids handed out so far
    last,           \* the last call: operation, arguments, return value
    prev,           \* the call before it
    nv,             \* a call of normalizeValue: its argument and result
    cmp,            \* a call of recordsAreIdentical: its arguments and result
    pm,             \* ParserManager: this.parsers and this.activeParser
    calls,          \* the import invocations in flight: what each one awaits
    view            \* the dashboard's card view: its globals, controls and cards

vars == <<files, data, ls, localStorage, clock, nextId, last, prev, nv, cmp, pm, calls, view>>

NoCall == [op |-> "none"]

\* new Date().toISOString(): the tick count, written out
toISOString(time) == Str(NumberToString(time))

\* ParseFlowDB.loadData with nothing saved
EmptyData ==
    [records  |-> <<>>,
     metadata |-> [totalFiles |-> 0, lastUpdated |-> Null, uploadHistory |-> <<>>]]

\* localStorage.setItem(key, JSON.stringify(item)) throws QuotaExceededError
\* when the item does not fit the quota
setItemThrows(nRecords) == nRecords > MaxQuota

\* localStorage.setItem(key, JSON.stringify(item)), when it does not throw
setItem(storage, key, item) ==
    [k \in (DOMAIN storage) \cup {key} |-> IF k = key THEN item ELSE storage[k]]

\* what JSON.parse gives back for the text JSON.stringify wrote: an array
\* with its items, or an object with its fields
JsonArray(items)   == [json |-> "array", items |-> items]
JsonObject(fields) == [json |-> "object", fields |-> fields]

\* new ParserManager(): no parser, no active parser; order is the insertion
\* order of the Map this.parsers
NoManager == [parsers |-> <<>>, order |-> <<>>, activeParser |-> Null]

Invocations == {1, 2}

\* no import is in flight
NoCalls == [inv \in Invocations |-> [pc |-> "idle"]]

\* ParseFlowDB.dbKey
dbKey == S(<<"p","a","r","s","e","f","l","o","w","_","d","a","t","a","b","a","s","e">>)

\* LocalStorageDatabase of the parser 'default': this.records, this.metadata
\* as the constructor leaves them
EmptyDatabase ==
    [records  |-> <<>>,
     metadata |-> [created      |-> toISOString(0),
                   lastModified |-> toISOString(0),
                   totalRecords |-> 0,
                   sources      |-> <<>>]]

\* the dashboard script's globals and the controls of its page before any
\* card is rendered: currentPage, filteredRecords (shared: it is the array
\* db.data.records itself), the cards on screen, selectedRecordId, the
\* values of #searchInput, #companyFilter and #sortBy (no search, "All
\* Companies", no sort key), and the last handler of the view that ran
Globals ==
    [currentPage      |-> 1,
     shared           |-> FALSE,
     filtered         |-> <<>>,
     cards            |-> <<>>,
     selectedRecordId |-> Null,
     searchInput      |-> <<>>,
     companyFilter    |-> <<>>,
     sortBy           |-> <<>>,
     handler          |-> NoCall]

\* a first visit: nothing in localStorage, both databases just constructed
Fresh ==
    /\ view = Globals
    /\ data = EmptyData
    /\ ls = EmptyDatabase
    /\ localStorage = <<>>
    /\ clock = 0
    /\ nextId = 0
    /\ last = NoCall
    /\ prev = NoCall
    /\ pm = NoManager
    /\ calls = NoCalls

(***************************************************************************)
(* ParseFlowDB: Import Engine.                                             *)
(***************************************************************************)
\* ParseFlowDB.generateId: 'pf_' + Date.now() + '_' + random, the k-th id
generateId(k) == Str(S(<<"p","f","_">>) \o NumberToString(k))

\* the return value of findDuplicateRecord at the first hit
duplicateRef(existingRecord) ==
    [t         |-> "object",
     id        |-> Get(existingRecord, K_id),
     source    |-> Get(existingRecord, K_source),
     dateAdded |-> Get(existingRecord, K_dateAdded)]

\* findDuplicateFrom that keeps looking and returns the last identical record
RECURSIVE findDuplicateFrom_Last(_, _, _)
findDuplicateFrom_Last(records, newRecord, i) ==
    IF i > Len(records) THEN Null
    ELSE IF /\ recordsAreIdentical(newRecord, records[i])
            /\ findDuplicateFrom_Last(records, newRecord, i + 1) = Null
         THEN duplicateRef(records[i])
    ELSE findDuplicateFrom_Last(records, newRecord, i + 1)

\* ParseFlowDB.findDuplicateRecord, from this.data.records[i] on
RECURSIVE findDuplicateFrom(_, _, _)
findDuplicateFrom(records, newRecord, i) ==
    IF i > Len(records) THEN Null
    ELSE IF recordsAreIdentical(newRecord, records[i]) THEN duplicateRef(records[i])
    ELSE findDuplicateFrom(records, newRecord, i + 1)

\* findDuplicateRecord that finds nothing
findDuplicateRecord_None(records, newRecord) == Null

\* ParseFlowDB.findDuplicateRecord over this.data.records = records
findDuplicateRecord(records, newRecord) == findDuplicateFrom(records, newRecord, 1)

\* scanStep with the test inverted: if (duplicateCheck) keeps the record
scanStep_Inverted(acc, record, duplicateCheck) ==
    IF duplicateCheck # Null
    THEN [acc EXCEPT !.uniqueRecords = Append(@, record)]
    ELSE [acc EXCEPT !.duplicateInfo =
                Append(@, [record |-> record, duplicateOf |-> duplicateCheck])]

\* scanStep that drops a duplicate without recording it
scanStep_Silent(acc, record, duplicateCheck) ==
    IF duplicateCheck = Null
    THEN [acc EXCEPT !.uniqueRecords = Append(@, record)]
    ELSE acc

\* the body of the first loop of addRecords
scanStep(acc, record, duplicateCheck) ==
    IF duplicateCheck = Null
    THEN [acc EXCEPT !.uniqueRecords = Append(@, record)]
    ELSE [acc EXCEPT !.duplicateInfo =
                Append(@, [record |-> record, duplicateOf |-> duplicateCheck])]

\* the first loop of addRecords: for (const record of newRecords)
RECURSIVE scanBatch(_, _, _)
scanBatch(records, newRecords, acc) ==
    IF newRecords = <<>> THEN acc
    ELSE scanBatch(records, Tail(newRecords),
                   scanStep(acc, Head(newRecords),
                            findDuplicateRecord(records, Head(newRecords))))

\* recordsWithMeta with the accepted records taken last to first
recordsWithMeta_Reversed(records, uniqueRecords, fileName, timestamp, firstId) ==
    [index \in 1..Len(uniqueRecords) |->
        Spread(uniqueRecords[Len(uniqueRecords) + 1 - index],
               (K_id :> generateId(firstId + index - 1)) @@
               (K_source :> Str(fileName)) @@
               (K_dateAdded :> timestamp) @@
               (K_index :> Num(Len(records) + index - 1)))]

\* uniqueRecords.map(...): the records with their metadata
recordsWithMeta(records, uniqueRecords, fileName, timestamp, firstId) ==
    [index \in 1..Len(uniqueRecords) |->
        Spread(uniqueRecords[index],
               (K_id :> generateId(firstId + index - 1)) @@
               (K_source :> Str(fileName)) @@
               (K_dateAdded :> timestamp) @@
               (K_index :> Num(Len(records) + index - 1)))]

\* ParseFlowDB.saveData: the storage after it, and the value it returns
saveData(storage, newData) ==
    IF setItemThrows(Len(newData.records))
    THEN [storage |-> storage, result |-> FALSE]
    ELSE [storage |-> setItem(storage, dbKey, JsonObject(newData)),
          result  |-> TRUE]

\* addRecords: the return statement
addRecordsReturn(newRecords, scan, newData, save) ==
    [data    |-> newData,
     storage |-> save.storage,
     saved   |-> save.result,
     ids     |-> Len(scan.uniqueRecords),
     ret     |-> [importStats |->
                    [total            |-> Len(newRecords),
                     added            |-> Len(scan.uniqueRecords),
                     duplicates       |-> Len(scan.duplicateInfo),
                     duplicateDetails |-> scan.duplicateInfo]]]

\* addRecords: const result = this.saveData()
addRecordsSave(storage, newRecords, scan, newData) ==
    addRecordsReturn(newRecords, scan, newData, saveData(storage, newData))

\* addRecords after its first loop: push the records, update the metadata
addRecordsPush(db, storage, newRecords, fileName, timestamp, firstId, scan) ==
    addRecordsSave(storage, newRecords, scan,
        [records  |-> db.records \o recordsWithMeta(db.records, scan.uniqueRecords,
                                                    fileName, timestamp, firstId),
         metadata |->
            [totalFiles    |-> db.metadata.totalFiles + 1,
             lastUpdated   |-> timestamp,
             uploadHistory |-> Append(db.metadata.uploadHistory,
                [fileName          |-> fileName,
                 recordCount       |-> Len(newRecords),
                 uniqueRecords     |-> Len(scan.uniqueRecords),
                 duplicatesSkipped |-> Len(scan.duplicateInfo),
                 timestamp         |-> timestamp])]])

\* ParseFlowDB.addRecords(newRecords, fileName) on this.data = db: the data
\* and the storage after the call, and its return value
addRecords(db, storage, newRecords, fileName, timestamp, firstId) ==
    addRecordsPush(db, storage, newRecords, fileName, timestamp, firstId,
                   scanBatch(db.records, newRecords,
                             [uniqueRecords |-> <<>>, duplicateInfo |-> <<>>]))

(***************************************************************************)
(* The dashboard's card view: search, company filter, sort and pages.      *)
(***************************************************************************)
\* let recordsPerPage = 12: the size of a page, scaled down with the store
recordsPerPage == CardsPerPage

\* whether if (value) takes a field value for true
truthy(value) ==
    CASE value.t = "string"  -> value.s # <<>>
      [] value.t = "number"  -> value.n # 0
      [] value.t = "boolean" -> value.b
      [] value.t \in {"null", "undefined"} -> FALSE

\* value.toString() of a string, a number or a boolean
valueToString(value) ==
    CASE value.t = "string"  -> value.s
      [] value.t = "number"  -> NumberToString(value.n)
      [] value.t = "boolean" -> IF value.b THEN S(<<"t","r","u","e">>)
                                           ELSE S(<<"f","a","l","s","e">>)

\* String.prototype.includes
includes(s, q) == \E i \in 0..(Len(s) - Len(q)) : SubSeq(s, i + 1, i + Len(q)) = q

\* ParseFlowDB.search on this.data.records = records
search(records, query) ==
    IF query = <<>> THEN records
    ELSE SelectSeq(records, LAMBDA record :
            \E key \in DOMAIN record :
                /\ truthy(record[key])
                /\ includes(toLowerCase(valueToString(record[key])), toLowerCase(query)))

\* a || b
orElse(a, b) == IF truthy(a) THEN a ELSE b

\* getFieldValue(record, possibleFields)
RECURSIVE getFieldValue(_, _)
getFieldValue(record, possibleFields) ==
    IF possibleFields = <<>> THEN Str(<<>>)
    ELSE IF truthy(orElse(Get(record, Head(possibleFields)),
                   orElse(Get(record, toLowerCase(Head(possibleFields))),
                          Get(record, toUpperCase(Head(possibleFields))))))
    THEN orElse(Get(record, Head(possibleFields)),
         orElse(Get(record, toLowerCase(Head(possibleFields))),
                Get(record, toUpperCase(Head(possibleFields)))))
    ELSE getFieldValue(record, Tail(possibleFields))

K_company == S(<<"c","o","m","p","a","n","y">>)

\* ['company', 'company_name', 'organization']
companyFields ==
    <<K_company,
      S(<<"c","o","m","p","a","n","y","_","n","a","m","e">>),
      S(<<"o","r","g","a","n","i","z","a","t","i","o","n">>)>>

\* loadCards: the test of its company filter (the companies are strings)
matchesCompany(record, companyFilter) ==
    /\ truthy(getFieldValue(record, companyFields))
    /\ includes(toLowerCase(getFieldValue(record, companyFields).s),
                toLowerCase(companyFilter))

\* new Date(string): the tick count that toISOString wrote
parseDate(s) == CHOOSE time \in 0..MaxClock : toISOString(time) = Str(s)

\* new Date(record._dateAdded || 0)
dateValue(record) ==
    IF truthy(Get(record, K_dateAdded)) THEN parseDate(record[K_dateAdded].s) ELSE 0

\* the place of record in records sorted newest first: behind every record
\* that is not older
RECURSIVE insertByDate(_, _)
insertByDate(sorted, record) ==
    IF sorted = <<>> THEN <<record>>
    ELSE IF dateValue(Head(sorted)) >= dateValue(record)
    THEN <<Head(sorted)>> \o insertByDate(Tail(sorted), record)
    ELSE <<record>> \o sorted

\* records.sort((a, b) => bValue - aValue), a stable sort
RECURSIVE sortByDate(_, _)
sortByDate(sorted, records) ==
    IF records = <<>> THEN sorted
    ELSE sortByDate(insertByDate(sorted, Head(records)), Tail(records))

\* sortRecords(records, sortBy) for sortBy 'date' and for a sortBy its switch
\* does not name (return 0: the order stays)
sortRecords(records, sortBy) ==
    IF sortBy = S(<<"d","a","t","e">>) THEN sortByDate(<<>>, records) ELSE records

\* Math.ceil(n / recordsPerPage)
totalPagesOf(n) == (n + recordsPerPage - 1) \div recordsPerPage

\* records.slice(startIndex, endIndex) of the current page
pageRecords(records, currentPage) ==
    SubSeq(records,
           (currentPage - 1) * recordsPerPage + 1,
           IF currentPage * recordsPerPage < Len(records)
           THEN currentPage * recordsPerPage ELSE Len(records))

\* renderCards: data-record-id of the cards it puts on screen
renderCards(records) == [i \in 1..Len(records) |-> Get(records[i], K_id)]

\* the global filteredRecords
filteredRecords(v, db) == IF v.shared THEN db.records ELSE v.filtered

\* loadCards once records is searched, filtered and sorted.  Without a search
\* and a filter, records is db.data.records itself, which sort() has sorted
\* in place
loadCardsShown(v, db, own, records) ==
    [view |-> [v EXCEPT !.shared   = own,
                        !.filtered = IF own THEN <<>> ELSE records,
                        !.cards    = renderCards(pageRecords(records, v.currentPage))],
     data |-> IF own THEN [db EXCEPT !.records = records] ELSE db]

\* loadCards() with the globals and controls v on db.data = db: the view and
\* db.data after it
loadCards(v, db) ==
    loadCardsShown(v, db, v.searchInput = <<>> /\ v.companyFilter = <<>>,
        sortRecords(
            IF v.companyFilter # <<>>
            THEN SelectSeq(search(db.records, v.searchInput),
                           LAMBDA record : matchesCompany(record, v.companyFilter))
            ELSE search(db.records, v.searchInput),
            v.sortBy))

\* updateCompanyFilter: select.innerHTML is rebuilt, "All Companies" selected
updateCompanyFilter(shown) ==
    [shown EXCEPT !.view.companyFilter = <<>>]

\* loadDashboardData: loadCards(), then updateCompanyFilter()
loadDashboardData(v, db) == updateCompanyFilter(loadCards(v, db))

\* a handler of the view returns: what it was called with, currentPage and
\* the length of filteredRecords as it found them, whether it has reloaded
handled(op, arg, v, db, shown, reloaded) ==
    [shown EXCEPT !.view.handler =
        [op       |-> op,
         arg      |-> arg,
         page     |-> v.currentPage,
         shown    |-> Len(filteredRecords(v, db)),
         reloaded |-> reloaded]]

\* what is on screen after an import: reloaded at the end of processUpdateFiles
afterImport(v, db, reloads) ==
    IF reloads
    THEN handled("processUpdateFiles", Null, v, db, loadDashboardData(v, db), TRUE)
    ELSE [view |-> v, data |-> db]

(***************************************************************************)
(* The dashboard: an upload is parsed, cleaned and handed to db.addRecords. *)
(***************************************************************************)
\* validateAndCleanData: the clean value of a string that has been trimmed
cleanString(trimmed) ==
    IF \/ trimmed = <<>>
       \/ toLowerCase(trimmed) = S(<<"n","u","l","l">>)
       \/ toLowerCase(trimmed) = S(<<"u","n","d","e","f","i","n","e","d">>)
    THEN Null
    ELSE Str(trimmed)

\* validateAndCleanData: cleanValue for one entry of the record
cleanValue(value) ==
    IF value.t = "string" THEN cleanString(trim(value.s)) ELSE value

\* validateAndCleanData: cleanedRecord, its keys trimmed and the entries
\* whose key is blank left out (no two keys of a row differ in blanks only)
cleanedRecord(record) ==
    [k \in {trim(key) : key \in {key \in DOMAIN record : trim(key) # <<>>}} |->
        cleanValue(record[CHOOSE key \in DOMAIN record : trim(key) = k])]

\* validateAndCleanData: hasValidData once the entries have been cleaned
hasValidData(cleaned) ==
    \E k \in DOMAIN cleaned :
        /\ ~IsNullish(cleaned[k])
        /\ cleaned[k] # Str(<<>>)

\* validateAndCleanData(data, fileName): validatedData
RECURSIVE validateAndCleanData(_)
validateAndCleanData(rawData) ==
    IF rawData = <<>> THEN <<>>
    ELSE (IF Head(rawData).t # "object" THEN <<>>
          ELSE IF hasValidData(cleanedRecord(Head(rawData).o))
               THEN <<cleanedRecord(Head(rawData).o)>>
               ELSE <<>>)
         \o validateAndCleanData(Tail(rawData))

\* processUpdateFiles, one turn of its loop once parseFile(file) has
\* resolved: if (data && data.length > 0) the cleaned rows go to db.addRecords;
\* after the last file, loadDashboardData()
processFile(fileName, reloads) ==
    /\ files[fileName] # <<>>
    /\ clock < MaxClock
    /\ Len(data.records) < MaxRecords
    /\ \E validatedData \in {validateAndCleanData(files[fileName])} :
       \E out \in {addRecords(data, localStorage, validatedData, fileName,
                              toISOString(clock), nextId)} :
       \E shown \in {afterImport(view, out.data, reloads)} :
        /\ data' = shown.data
        /\ view' = shown.view
        /\ localStorage' = out.storage
        /\ nextId' = nextId + out.ids
        /\ last' = [op     |-> "PF.addRecords",
                    file   |-> fileName,
                    raw    |-> files[fileName],
                    batch  |-> validatedData,
                    before |-> data.records,
                    meta   |-> data.metadata,
                    threw  |-> FALSE,
                    saved  |-> out.saved,
                    ret    |-> out.ret]
    /\ clock' = clock + 1
    /\ prev' = last
    /\ UNCHANGED <<files, ls, nv, cmp, pm>>

\* processUpdateFiles with one file, no other import in flight
PF_AddRecords(fileName) ==
    /\ processFile(fileName, TRUE)
    /\ UNCHANGED calls

Idle == [done |-> FALSE]

Init ==
    /\ files \in [FileNames -> Batches]
    /\ Fresh
    /\ nv = Idle
    /\ cmp = Idle

Next ==
    \E fileName \in FileNames : PF_AddRecords(fileName)

Spec == Init /\ [][Next]_vars

(***************************************************************************)
(* BaseDatabase: record hash and validation.                               *)
(***************************************************************************)
\* sortedKeys.map(key => `${key}:${JSON.stringify(record[key])}`).join('|')
RECURSIVE joinEntries(_, _)
joinEntries(record, sortedKeys) ==
    IF sortedKeys = <<>> THEN <<>>
    ELSE Head(sortedKeys) \o <<58>> \o stringify(record[Head(sortedKeys)])
         \o (IF Len(sortedKeys) > 1 THEN <<124>> ELSE <<>>)
         \o joinEntries(record, Tail(sortedKeys))

\* a 32-bit integer as its two 16-bit halves
hashCarry(hash, low) ==
    [lo |-> low % 65536, hi |-> (31 * hash.hi + (low \div 65536)) % 65536]

\* hash = ((hash << 5) - hash) + char; hash = hash & hash: 31 * hash + char
\* modulo 2^32
hashStep(hash, char) == hashCarry(hash, 31 * hash.lo + char)

\* the for loop of generateRecordHash (hash.lo is never negative: the test
\* has each step computed before the next one is taken)
RECURSIVE hashLoop(_, _)
hashLoop(hash, hashString) ==
    IF hashString = <<>> \/ hash.lo < 0 THEN hash
    ELSE hashLoop(hashStep(hash, Head(hashString)), Tail(hashString))

\* the signed 32-bit integer of the two halves
toInt32(hash) ==
    IF hash.hi >= 32768 THEN (hash.hi - 65536) * 65536 + hash.lo
    ELSE hash.hi * 65536 + hash.lo

\* BaseDatabase.generateRecordHash
generateRecordHash(record) ==
    NumberToString(toInt32(hashLoop([hi |-> 0, lo |-> 0],
                                    joinEntries(record.o, sortKeys(DOMAIN record.o)))))

\* validateRecord that accepts every object, whatever its values
validateRecord_AnyObject(record) == record.t = "object"

\* BaseDatabase.validateRecord: null and the values that are not objects
\* are rejected by the first test, an object by the second unless one of its
\* values is neither null, undefined nor ''
validateRecord(record) ==
    IF record.t # "object" THEN FALSE
    ELSE \E k \in DOMAIN record.o :
            /\ ~IsNullish(record.o[k])
            /\ record.o[k] # Str(<<>>)

(***************************************************************************)
(* LocalStorageDatabase.                                                   *)
(***************************************************************************)
K_checked == S(<<"c","h","e","c","k","e","d">>)

\* `parseflow_${parserName}` and `parseflow_meta_${parserName}`
storageKey(parserName) ==
    S(<<"p","a","r","s","e","f","l","o","w","_">>) \o parserName

metaKey(parserName) ==
    S(<<"p","a","r","s","e","f","l","o","w","_","m","e","t","a","_">>) \o parserName

DefaultParser == S(<<"d","e","f","a","u","l","t">>)

\* LocalStorageDatabase.generateUniqueId, the k-th id
generateUniqueId(k) == Str(S(<<"r","e","c","o","r","d","_">>) \o NumberToString(k))

\* if (!record.hasOwnProperty('checked')) record.checked = false
withChecked(record) ==
    IF K_checked \in DOMAIN record.o THEN record
    ELSE Obj(Spread(record.o, (K_checked :> Bool(FALSE))))

\* the forEach callback of addRecords once the record's hash is taken
lsScanStep(acc, record, recordHash, source, timestamp, firstId) ==
    IF ~validateRecord(record)
    THEN [acc EXCEPT !.stats.invalid = @ + 1,
                     !.outcomes = Append(@, "invalid")]
    ELSE IF recordHash \in acc.existingHashes
    THEN [acc EXCEPT !.stats.duplicates = @ + 1,
                     !.outcomes = Append(@, "duplicate")]
    ELSE [acc EXCEPT
            !.records = Append(@, [id        |-> generateUniqueId(firstId + acc.stats.newRecords),
                                   data      |-> withChecked(record),
                                   hash      |-> recordHash,
                                   source    |-> source,
                                   createdAt |-> timestamp,
                                   updatedAt |-> timestamp]),
            !.existingHashes = @ \cup {recordHash},
            !.stats.newRecords = @ + 1,
            !.outcomes = Append(@, "new")]

\* records.forEach((record, index) => ...)
RECURSIVE lsScanBatch(_, _, _, _, _)
lsScanBatch(acc, records, source, timestamp, firstId) ==
    IF records = <<>> THEN acc
    ELSE lsScanBatch(lsScanStep(acc, Head(records), generateRecordHash(Head(records)),
                                source, timestamp, firstId),
                     Tail(records), source, timestamp, firstId)

\* metadata.sources after: if (!sources.includes(source)) sources.push(source)
pushSource(sources, source) ==
    IF \E i \in 1..Len(sources) : sources[i] = source THEN sources
    ELSE Append(sources, source)

\* LocalStorageDatabase.saveToStorage: the storage after it, and whether it
\* throws 'Failed to save data to localStorage'
saveToStorage(storage, parserName, db) ==
    IF setItemThrows(Len(db.records))
    THEN [storage |-> storage, threw |-> TRUE]
    ELSE [storage |-> setItem(setItem(storage, storageKey(parserName),
                                      JsonArray(db.records)),
                              metaKey(parserName), JsonObject(db.metadata)),
          threw   |-> FALSE]

\* addRecords: this.saveToStorage(); return importStats
lsAddRecordsReturn(db, scan, save) ==
    [db       |-> db,
     storage  |-> save.storage,
     threw    |-> save.threw,
     ids      |-> scan.stats.newRecords,
     outcomes |-> scan.outcomes,
     seen     |-> scan.existingHashes,
     ret      |-> scan.stats]

\* addRecords after the forEach: update the metadata, save
lsAddRecordsSave(storage, parserName, scan, db) ==
    lsAddRecordsReturn(db, scan, saveToStorage(storage, parserName, db))

lsAddRecordsMeta(db, storage, parserName, source, timestamp, scan) ==
    lsAddRecordsSave(storage, parserName, scan,
        [records  |-> scan.records,
         metadata |-> [created      |-> db.metadata.created,
                       lastModified |-> timestamp,
                       totalRecords |-> Len(scan.records),
                       sources      |-> pushSource(db.metadata.sources, source)]])

\* LocalStorageDatabase.addRecords(records, source) on the database db of
\* parser parserName: the database and the storage after the call, whether it
\* threw, and the importStats it returns
lsAddRecords(db, storage, parserName, records, source, timestamp, firstId) ==
    lsAddRecordsMeta(db, storage, parserName, source, timestamp,
        lsScanBatch([records        |-> db.records,
                     existingHashes |-> {generateRecordHash(db.records[i].data) :
                                            i \in 1..Len(db.records)},
                     stats          |-> [totalRecords |-> Len(records),
                                         newRecords   |-> 0,
                                         duplicates   |-> 0,
                                         invalid      |-> 0,
                                         source       |-> source],
                     outcomes       |-> <<>>],
                    records, source, timestamp, firstId))

\* the rows of the files imported into a parser's database:
\* {name:"A"}, {name:"A",checked:false}, {name:"B"}, {name:""}
Row_A_unchecked == (K_name :> Str(S(<<"A">>))) @@ (K_checked :> Bool(FALSE))
Row_B           == (K_name :> Str(S(<<"B">>)))
Row_Blank       == (K_name :> Str(<<>>))

LSRows == {Obj(Row_A), Obj(Row_A_unchecked), Obj(Row_B), Obj(Row_Blank)}

LSBatches == BatchesOf(LSRows)

\* ParserManager.importToParser('default', data, source): the rows go to the
\* parser's database as they are
LS_AddRecords(fileName) ==
    /\ clock < MaxClock
    /\ Len(ls.records) < MaxRecords
    /\ \E out \in {lsAddRecords(ls, localStorage, DefaultParser, files[fileName],
                                Str(fileName), toISOString(clock), nextId)} :
        /\ ls' = out.db
        /\ localStorage' = out.storage
        /\ nextId' = nextId + out.ids
        /\ last' = [op       |-> "LS.addRecords",
                    file     |-> fileName,
                    batch    |-> files[fileName],
                    before   |-> ls.records,
                    meta     |-> ls.metadata,
                    threw    |-> out.threw,
                    outcomes |-> out.outcomes,
                    seen     |-> out.seen,
                    ret      |-> out.ret]
    /\ clock' = clock + 1
    /\ prev' = last
    /\ UNCHANGED <<files, data, nv, cmp, pm, calls, view>>

InitLS ==
    /\ files \in [FileNames -> LSBatches]
    /\ Fresh
    /\ nv = Idle
    /\ cmp = Idle

NextLS ==
    \E fileName \in FileNames : LS_AddRecords(fileName)

SpecLS == InitLS /\ [][NextLS]_vars

(***************************************************************************)
(* Imports of JSON arrays whose items are not all records.                 *)
(***************************************************************************)
\* the items of a parsed JSON array that are not records: null, "A", {}
Item_Null   == Null
Item_String == Str(S(<<"A">>))
Item_Empty  == Obj(<<>>)

LSItems == {Obj(Row_A), Obj(Row_Blank), Item_Null, Item_String, Item_Empty}

\* a spreadsheet yields one object per row, a JSON file any array
SheetItems == {Obj(Row_A), Obj(Row_Blank)}

JsonFile  == S(<<"a">>)
SheetFile == S(<<"b">>)

\* file a is a JSON file, file b a spreadsheet
InitLSItems ==
    /\ files \in {(JsonFile :> json) @@ (SheetFile :> sheet) :
                    json \in BatchesOf(LSItems), sheet \in BatchesOf(SheetItems)}
    /\ Fresh
    /\ nv = Idle
    /\ cmp = Idle

SpecLSItems == InitLSItems /\ [][NextLS]_vars

(***************************************************************************)
(* The dashboard page is loaded with an upload waiting in sessionStorage.  *)
(***************************************************************************)
\* the own enumerable properties of a value, as Object.keys and { ...value }
\* see them: those of an object, the characters of a string, none otherwise
toObject(value) ==
    IF value.t = "object" THEN value.o
    ELSE IF value.t = "string"
         THEN [k \in {NumberToString(i - 1) : i \in 1..Len(value.s)} |->
                Str(<<value.s[CHOOSE i \in 1..Len(value.s) : NumberToString(i - 1) = k]>>)]
    ELSE <<>>

\* Object.keys(record1) in recordsAreIdentical throws a TypeError
objectKeysThrows(record1) == record1.t \in {"null", "undefined"}

\* addRecords(newRecords) throws: findDuplicateRecord calls
\* recordsAreIdentical(record, existingRecord) once there is a stored record
addRecordsThrows(db, newRecords) ==
    /\ db.records # <<>>
    /\ \E i \in 1..Len(newRecords) : objectKeysThrows(newRecords[i])

\* JSON.parse(JSON.stringify(record)): the properties whose value is
\* undefined are left out
parseStringify(record) ==
    [k \in {k \in DOMAIN record : record[k].t # "undefined"} |-> record[k]]

\* ParseFlowDB.loadData
loadData(storage) ==
    IF dbKey \in DOMAIN storage
    THEN [records  |-> [i \in 1..Len(storage[dbKey].fields.records) |->
                            parseStringify(storage[dbKey].fields.records[i])],
          metadata |-> storage[dbKey].fields.metadata]
    ELSE EmptyData

\* initializeDashboard when db.addRecords throws: the catch logs the error
dashboardCaught(db, fileName, uploadedData) ==
    /\ data' = db
    /\ last' = [op     |-> "PF.initializeDashboard",
                file   |-> fileName,
                raw    |-> uploadedData,
                batch  |-> <<>>,
                before |-> db.records,
                meta   |-> db.metadata,
                threw  |-> TRUE]
    /\ UNCHANGED <<localStorage, nextId>>

\* initializeDashboard when db.addRecords returns
dashboardImported(db, fileName, uploadedData, newRecords, out) ==
    /\ data' = out.data
    /\ localStorage' = out.storage
    /\ nextId' = nextId + out.ids
    /\ last' = [op     |-> "PF.initializeDashboard",
                file   |-> fileName,
                raw    |-> uploadedData,
                batch  |-> newRecords,
                before |-> db.records,
                meta   |-> db.metadata,
                threw  |-> FALSE,
                saved  |-> out.saved,
                ret    |-> out.ret]

\* initializeDashboard with db = new ParseFlowDB() just loaded
dashboardImport(db, fileName, uploadedData, newRecords) ==
    IF addRecordsThrows(db, uploadedData)
    THEN dashboardCaught(db, fileName, uploadedData)
    ELSE \E out \in {addRecords(db, localStorage, newRecords, fileName,
                                 toISOString(clock), nextId)} :
            dashboardImported(db, fileName, uploadedData, newRecords, out)

\* the dashboard page is loaded after the upload page has parsed fileName:
\* let db = new ParseFlowDB(), then initializeDashboard
PF_InitializeDashboard(fileName) ==
    /\ files[fileName] # <<>>
    /\ clock < MaxClock
    /\ Len(loadData(localStorage).records) < MaxRecords
    /\ \E db \in {loadData(localStorage)} :
            dashboardImport(db, fileName, files[fileName],
                            [i \in 1..Len(files[fileName]) |-> toObject(files[fileName][i])])
    /\ view' = handled("DOMContentLoaded", Null, Globals, data',
                       loadDashboardData(Globals, data'), TRUE).view
    /\ clock' = clock + 1
    /\ prev' = last
    /\ UNCHANGED <<files, ls, nv, cmp, pm, calls>>

\* {name:"N/A"}
Row_NA == (K_name :> Str(S(<<"N","/","A">>)))

ImportItems == {Obj(Row_A), Obj(Row_NA), Item_Null}

\* file a is a JSON file, file b a spreadsheet
InitImports ==
    /\ files \in {(JsonFile :> json) @@ (SheetFile :> sheet) :
                    json \in BatchesOf(ImportItems),
                    sheet \in BatchesOf({Obj(Row_A)})}
    /\ Fresh
    /\ nv = Idle
    /\ cmp = Idle

NextImports ==
    \E fileName \in FileNames :
        \/ PF_AddRecords(fileName)
        \/ PF_InitializeDashboard(fileName)
        \/ LS_AddRecords(fileName)

SpecImports == InitImports /\ [][NextImports]_vars

(***************************************************************************)
(* ParserManager: parsers, each with its own LocalStorageDatabase.         *)
(***************************************************************************)
\* ParserManager.storageKey
parsersKey ==
    S(<<"p","a","r","s","e","f","l","o","w","_","p","a","r","s","e","r","s">>)

\* .replace(/[^a-z0-9_-]/g, '_') on one code unit
sanitizeChar(c) ==
    IF (c >= 97 /\ c <= 122) \/ (c >= 48 /\ c <= 57) \/ c \in {95, 45} THEN c ELSE 95

\* name.trim().toLowerCase().replace(/[^a-z0-9_-]/g, '_')
sanitizeName(name) ==
    [i \in 1..Len(trim(name)) |-> sanitizeChar(LowerChar(trim(name)[i]))]

\* new LocalStorageDatabase(parserName): this.records, this.metadata
newDatabase(timestamp) ==
    [records  |-> <<>>,
     metadata |-> [created      |-> timestamp,
                   lastModified |-> timestamp,
                   totalRecords |-> 0,
                   sources      |-> <<>>]]

\* { ...array }: the items under their indices
indexProps(items) ==
    [k \in {ToString(i - 1) : i \in 1..Len(items)} |->
        items[CHOOSE i \in 1..Len(items) : ToString(i - 1) = k]]

\* JSON.parse(stored), whatever was stored under the key
parsedValue(item) == IF item.json = "array" THEN item.items ELSE item.fields

\* { ...this.metadata, ...JSON.parse(storedMeta) }
mergedMetadata(metadata, item) ==
    IF item.json = "array" THEN indexProps(item.items) @@ metadata
    ELSE item.fields @@ metadata

\* LocalStorageDatabase.initialize on the database db just constructed
lsInitialize(storage, parserName, db) ==
    [records  |-> IF storageKey(parserName) \in DOMAIN storage
                  THEN parsedValue(storage[storageKey(parserName)])
                  ELSE db.records,
     metadata |-> IF metaKey(parserName) \in DOMAIN storage
                  THEN mergedMetadata(db.metadata, storage[metaKey(parserName)])
                  ELSE db.metadata]

\* createParser: the parser object
newParser(name, description, timestamp, database) ==
    [name        |-> sanitizeName(name),
     displayName |-> trim(name),
     description |-> IF description = <<>>
                     THEN S(<<"P","a","r","s","e","r"," ","f","o","r"," ">>) \o name
                     ELSE description,
     database    |-> database,
     created     |-> timestamp,
     lastUsed    |-> timestamp]

\* ParserManager.saveToStorage: parserData
parserData(manager) ==
    [activeParser |-> manager.activeParser,
     parsers      |-> [i \in 1..Len(manager.order) |->
                        [name        |-> manager.order[i],
                         displayName |-> manager.parsers[manager.order[i]].displayName,
                         description |-> manager.parsers[manager.order[i]].description,
                         created     |-> manager.parsers[manager.order[i]].created,
                         lastUsed    |-> manager.parsers[manager.order[i]].lastUsed]]]

\* ParserManager.saveToStorage: the parser list holds no record and fits
pmSaveToStorage(storage, manager) ==
    IF setItemThrows(0)
    THEN [storage |-> storage, threw |-> TRUE]
    ELSE [storage |-> setItem(storage, parsersKey, JsonObject(parserData(manager))),
          threw   |-> FALSE]

\* this.parsers.set(name, parser): a new key goes to the end of the Map
mapSet(manager, name, parser) ==
    [manager EXCEPT
        !.parsers = [k \in (DOMAIN manager.parsers) \cup {name} |->
                        IF k = name THEN parser ELSE manager.parsers[k]],
        !.order   = IF name \in DOMAIN manager.parsers THEN @ ELSE Append(@, name)]

\* createParser: if (setAsActive || !this.activeParser)
withActive(manager, name, setAsActive) ==
    IF setAsActive \/ manager.activeParser \in {Null, Undefined, Str(<<>>)}
    THEN [manager EXCEPT !.activeParser = Str(name)]
    ELSE manager

\* createParser: this.saveToStorage(); return sanitizedName
createParserSave(manager, save) ==
    [pm |-> manager, storage |-> save.storage, threw |-> save.threw]

\* ParserManager.createParser(name, description, setAsActive)
createParser(manager, storage, name, description, setAsActive, timestamp) ==
    IF name \in DOMAIN manager.parsers \/ trim(name) = <<>>
    THEN [pm |-> manager, storage |-> storage, threw |-> TRUE]
    ELSE createParserSave(
            withActive(mapSet(manager, sanitizeName(name),
                              newParser(name, description, timestamp,
                                        lsInitialize(storage, sanitizeName(name),
                                                     newDatabase(timestamp)))),
                       sanitizeName(name), setAsActive),
            pmSaveToStorage(storage,
                withActive(mapSet(manager, sanitizeName(name),
                                  newParser(name, description, timestamp,
                                            lsInitialize(storage, sanitizeName(name),
                                                         newDatabase(timestamp)))),
                           sanitizeName(name), setAsActive)))

\* this.records.findIndex(r => r.id === id), counted from 1; 0 for -1
findIndex(records, id) ==
    IF \E i \in 1..Len(records) : records[i].id = id
    THEN CHOOSE i \in 1..Len(records) :
            /\ records[i].id = id
            /\ \A m \in 1..(i - 1) : records[m].id # id
    ELSE 0

\* a method of LocalStorageDatabase: this.saveToStorage(); return true
lsSaved(db, save) ==
    [db |-> db, storage |-> save.storage, threw |-> save.threw, ret |-> TRUE]

\* LocalStorageDatabase.updateRecord once recordIndex is found
lsUpdateAt(db, storage, parserName, recordIndex, newData, timestamp) ==
    IF recordIndex = 0
    THEN [db |-> db, storage |-> storage, threw |-> FALSE, ret |-> FALSE]
    ELSE lsSaved(
            [records  |-> [db.records EXCEPT ![recordIndex].data = newData,
                                             ![recordIndex].updatedAt = timestamp,
                                             ![recordIndex].hash = generateRecordHash(newData)],
             metadata |-> [db.metadata EXCEPT !.lastModified = timestamp]],
            saveToStorage(storage, parserName,
                [records  |-> [db.records EXCEPT ![recordIndex].data = newData,
                                                 ![recordIndex].updatedAt = timestamp,
                                                 ![recordIndex].hash = generateRecordHash(newData)],
                 metadata |-> [db.metadata EXCEPT !.lastModified = timestamp]]))

\* LocalStorageDatabase.updateRecord(id, data)
lsUpdateRecord(db, storage, parserName, id, updates, timestamp) ==
    lsUpdateAt(db, storage, parserName, findIndex(db.records, id),
               IF findIndex(db.records, id) = 0 THEN Null
               ELSE Obj(Spread(db.records[findIndex(db.records, id)].data.o, updates)),
               timestamp)

\* this.records.splice(recordIndex, 1)
splice(records, recordIndex) ==
    SubSeq(records, 1, recordIndex - 1) \o SubSeq(records, recordIndex + 1, Len(records))

\* LocalStorageDatabase.deleteRecord once recordIndex is found
lsDeleteAt(db, storage, parserName, recordIndex, timestamp) ==
    IF recordIndex = 0
    THEN [db |-> db, storage |-> storage, threw |-> FALSE, ret |-> FALSE]
    ELSE lsSaved(
            [records  |-> splice(db.records, recordIndex),
             metadata |-> [db.metadata EXCEPT !.totalRecords = Len(db.records) - 1,
                                              !.lastModified = timestamp]],
            saveToStorage(storage, parserName,
                [records  |-> splice(db.records, recordIndex),
                 metadata |-> [db.metadata EXCEPT !.totalRecords = Len(db.records) - 1,
                                                  !.lastModified = timestamp]]))

\* LocalStorageDatabase.deleteRecord(id)
lsDeleteRecord(db, storage, parserName, id, timestamp) ==
    lsDeleteAt(db, storage, parserName, findIndex(db.records, id), timestamp)

\* LocalStorageDatabase.clearData
lsClearData(storage, parserName, timestamp) ==
    lsSaved(newDatabase(timestamp),
            saveToStorage(storage, parserName, newDatabase(timestamp)))

ParserX     == S(<<"x">>)
ParserMetaX == S(<<"m","e","t","a","_","x">>)

\* the ids handed out so far, and one that no record has
RecordIds == {generateUniqueId(k) : k \in 0..nextId}

\* what the grid sends when a row's checkbox is ticked
CheckedUpdate == (K_checked :> Bool(TRUE))

\* a method of the database of parser name has run: the state after it
databaseCall(op, name, out) ==
    /\ pm' = [pm EXCEPT !.parsers[name].database = out.db]
    /\ localStorage' = out.storage
    /\ last' = [op      |-> op,
                parser  |-> name,
                storage |-> localStorage,
                before  |-> pm.parsers[name].database.records,
                threw   |-> out.threw,
                ret     |-> out.ret]
    /\ clock' = clock + 1
    /\ prev' = last
    /\ UNCHANGED <<files, data, ls, nv, cmp, calls, view>>

\* getParser(name).database.addRecords(data, source)
DB_AddRecords(name, fileName) ==
    /\ clock < MaxClock
    /\ Len(pm.parsers[name].database.records) < MaxRecords
    /\ \E out \in {lsAddRecords(pm.parsers[name].database, localStorage, name,
                                files[fileName], Str(fileName), toISOString(clock),
                                nextId)} :
        /\ nextId' = nextId + out.ids
        /\ databaseCall("DB.addRecords", name, out)

\* getParser(name).database.updateRecord(id, { checked: true })
DB_UpdateRecord(name, id) ==
    /\ clock < MaxClock
    /\ \E out \in {lsUpdateRecord(pm.parsers[name].database, localStorage, name, id,
                                   CheckedUpdate, toISOString(clock))} :
        databaseCall("DB.updateRecord", name, out)
    /\ UNCHANGED nextId

\* getParser(name).database.deleteRecord(id)
DB_DeleteRecord(name, id) ==
    /\ clock < MaxClock
    /\ \E out \in {lsDeleteRecord(pm.parsers[name].database, localStorage, name, id,
                                   toISOString(clock))} :
        databaseCall("DB.deleteRecord", name, out)
    /\ UNCHANGED nextId

\* getParser(name).database.clearData()
DB_ClearData(name) ==
    /\ clock < MaxClock
    /\ \E out \in {lsClearData(localStorage, name, toISOString(clock))} :
        databaseCall("DB.clearData", name, out)
    /\ UNCHANGED nextId

\* a first visit: initialize() has created the parser 'default', then the
\* parsers 'x' and 'meta_x' have been created
InitParsers ==
    /\ files \in [FileNames -> BatchesOf({Obj(Row_A)})]
    /\ view = Globals
    /\ data = EmptyData
    /\ ls = EmptyDatabase
    /\ clock = 0
    /\ nextId = 0
    /\ last = NoCall
    /\ prev = NoCall
    /\ nv = Idle
    /\ cmp = Idle
    /\ calls = NoCalls
    /\ \E c1 \in {createParser(NoManager, <<>>, DefaultParser,
                                S(<<"D","e","f","a","u","l","t"," ","P","a","r","s","e","r">>),
                                TRUE, toISOString(0))} :
       \E c2 \in {createParser(c1.pm, c1.storage, ParserX, <<>>, FALSE, toISOString(0))} :
       \E c3 \in {createParser(c2.pm, c2.storage, ParserMetaX, <<>>, FALSE,
                                toISOString(0))} :
            /\ pm = c3.pm
            /\ localStorage = c3.storage

NextParsers ==
    \E name \in DOMAIN pm.parsers :
        \/ \E fileName \in FileNames : DB_AddRecords(name, fileName)
        \/ \E id \in RecordIds : DB_UpdateRecord(name, id)
        \/ \E id \in RecordIds : DB_DeleteRecord(name, id)
        \/ DB_ClearData(name)

SpecParsers == InitParsers /\ [][NextParsers]_vars

(***************************************************************************)
(* Imports of records whose hash strings differ in two characters.         *)
(***************************************************************************)
K_x == S(<<"x">>)

\* {x:"Aa"} and {x:"BB"}
Row_Aa == (K_x :> Str(S(<<"A","a">>)))
Row_BB == (K_x :> Str(S(<<"B","B">>)))

InitCollide ==
    /\ files \in {(JsonFile :> json) @@ (SheetFile :> sheet) :
                    json \in BatchesOf({Obj(Row_Aa), Obj(Row_BB)}),
                    sheet \in BatchesOf({Obj(Row_BB)})}
    /\ Fresh
    /\ nv = Idle
    /\ cmp = Idle

SpecCollide == InitCollide /\ [][NextLS]_vars

(***************************************************************************)
(* ParserManager: its parsers are created, selected, deleted, renamed and  *)
(* duplicated.                                                             *)
(***************************************************************************)
K_recordId == S(<<"i","d">>)
K_metadata == S(<<"_","m","e","t","a","d","a","t","a">>)

\* getAllRecords: the _metadata of a returned record
recordMetadata(r) ==
    PlainObject(<<[k |-> S(<<"s","o","u","r","c","e">>), v |-> r.source],
                  [k |-> S(<<"c","r","e","a","t","e","d","A","t">>), v |-> r.createdAt],
                  [k |-> S(<<"u","p","d","a","t","e","d","A","t">>), v |-> r.updatedAt]>>)

\* LocalStorageDatabase.getAllRecords: { id: r.id, ...r.data, _metadata }
getAllRecords(db) ==
    [i \in 1..Len(db.records) |->
        Obj(Spread(Spread((K_recordId :> db.records[i].id), db.records[i].data.o),
                   (K_metadata :> recordMetadata(db.records[i]))))]

\* const { _metadata, ...data } = record; return data
withoutMetadata(record) ==
    Obj([k \in (DOMAIN record.o) \ {K_metadata} |-> record.o[k]])

\* getAllRecords().map(record => data)
copiedRecords(db) ==
    [i \in 1..Len(db.records) |-> withoutMetadata(getAllRecords(db)[i])]

\* a method of ParserManager throws: nothing after the throw is done
managerThrew(manager, storage) ==
    [pm |-> manager, storage |-> storage, threw |-> TRUE, ret |-> Undefined,
     ids |-> 0, atReturn |-> manager]

\* this.saveToStorage(); return ret
managerSaved(manager, storage, ret, ids) ==
    [pm       |-> manager,
     storage  |-> pmSaveToStorage(storage, manager).storage,
     threw    |-> pmSaveToStorage(storage, manager).threw,
     ret      |-> ret,
     ids      |-> ids,
     atReturn |-> manager]

\* await createParser(name, description, setAsActive): the promise settled
createParserSettled(name, out) ==
    [pm       |-> out.pm,
     storage  |-> out.storage,
     threw    |-> out.threw,
     ret      |-> IF out.threw THEN Undefined ELSE Str(sanitizeName(name)),
     ids      |-> 0,
     atReturn |-> out.pm]

createParserCall(manager, storage, name, setAsActive, timestamp) ==
    createParserSettled(name,
        createParser(manager, storage, name, <<>>, setAsActive, timestamp))

\* ParserManager.setActiveParser(name)
setActiveParser(manager, storage, name, timestamp) ==
    IF name \notin DOMAIN manager.parsers THEN managerThrew(manager, storage)
    ELSE managerSaved([manager EXCEPT !.activeParser = Str(name),
                                      !.parsers[name].lastUsed = timestamp],
                      storage, Bool(TRUE), 0)

\* the keys of the Map without name, in their order
RECURSIVE keysWithout(_, _)
keysWithout(keys, name) ==
    IF keys = <<>> THEN <<>>
    ELSE (IF Head(keys) = name THEN <<>> ELSE <<Head(keys)>>)
         \o keysWithout(Tail(keys), name)

\* this.parsers.delete(name)
mapDelete(manager, name) ==
    [manager EXCEPT
        !.parsers = [k \in (DOMAIN manager.parsers) \ {name} |-> manager.parsers[k]],
        !.order   = keysWithout(manager.order, name)]

\* deleteParser: this.activeParser = remainingParsers[0]
withRemainingActive(manager, name) ==
    IF manager.activeParser # Str(name) THEN manager
    ELSE [manager EXCEPT !.activeParser =
            IF manager.order = <<>> THEN Undefined ELSE Str(manager.order[1])]

\* deleteParser once parser.database.clearData() has run
deleteCleared(manager, name, cleared) ==
    IF cleared.threw
    THEN managerThrew([manager EXCEPT !.parsers[name].database = cleared.db],
                      cleared.storage)
    ELSE managerSaved(withRemainingActive(mapDelete(manager, name), name),
                      cleared.storage, Bool(TRUE), 0)

\* deleteParser without its guards for 'default' and for the last parser
deleteParser_Unguarded(manager, storage, name, timestamp) ==
    IF name \notin DOMAIN manager.parsers
    THEN managerThrew(manager, storage)
    ELSE deleteCleared(manager, name, lsClearData(storage, name, timestamp))

\* ParserManager.deleteParser(name)
deleteParser(manager, storage, name, timestamp) ==
    IF \/ name \notin DOMAIN manager.parsers
       \/ name = DefaultParser
       \/ Cardinality(DOMAIN manager.parsers) <= 1
    THEN managerThrew(manager, storage)
    ELSE deleteCleared(manager, name, lsClearData(storage, name, timestamp))

\* renameParser: the map and the active parser updated, the list saved
renameFinish(manager, oldName, newName, name, storage, ids) ==
    managerSaved(
        [mapSet(mapDelete(manager, oldName), name, manager.parsers[oldName])
            EXCEPT !.activeParser = IF @ = Str(oldName) THEN Str(name) ELSE @],
        storage, Str(name), ids)

\* renameParser once the data has been copied: oldDatabase.clearData()
renameCopied(manager, oldName, newName, name, oldDatabase, copied, timestamp) ==
    IF copied.threw
    THEN [managerThrew([manager EXCEPT !.parsers[oldName].database = copied.db],
                       copied.storage)
            EXCEPT !.ids = copied.ids]
    ELSE renameFinish([manager EXCEPT !.parsers[oldName].database = copied.db],
                      oldName, newName, name,
                      lsClearData(copied.storage, oldName, timestamp).storage,
                      copied.ids)

\* if (data.length > 0) parser.database.addRecords(data, 'renamed_parser_data')
copyInto(db, storage, name, sourceData, source, timestamp, firstId) ==
    IF sourceData = <<>>
    THEN [db |-> db, storage |-> storage, threw |-> FALSE, ids |-> 0]
    ELSE lsAddRecords(db, storage, name, sourceData, source, timestamp, firstId)

\* ParserManager.renameParser(oldName, newName)
renameParser(manager, storage, oldName, newName, timestamp, firstId) ==
    IF \/ oldName \notin DOMAIN manager.parsers
       \/ oldName = DefaultParser
       \/ sanitizeName(newName) \in DOMAIN manager.parsers
    THEN managerThrew(manager, storage)
    ELSE renameCopied(
            [manager EXCEPT !.parsers[oldName].displayName = trim(newName),
                            !.parsers[oldName].name = sanitizeName(newName)],
            oldName, newName, sanitizeName(newName),
            manager.parsers[oldName].database,
            copyInto(newDatabase(timestamp), storage, sanitizeName(newName),
                     copiedRecords(manager.parsers[oldName].database),
                     Str(S(<<"r","e","n","a","m","e","d","_","p","a","r","s","e","r","_",
                             "d","a","t","a">>)),
                     timestamp, firstId),
            timestamp)

\* duplicateParser: what the call leaves, then the createParser it started
\* and did not wait for goes on after its await
duplicateSettled(atReturn, created) ==
    [pm       |-> created.pm,
     storage  |-> created.storage,
     threw    |-> atReturn.threw,
     ret      |-> atReturn.ret,
     ids      |-> 0,
     atReturn |-> atReturn.pm]

\* duplicateParser after this.createParser(...): newParser is
\* this.parsers.get(sanitizedNewName) before the parser is registered, so
\* newParser.database throws when there is data to copy
duplicateCopy(manager, storage, sourceName, newName) ==
    IF manager.parsers[sourceName].database.records # <<>>
    THEN managerThrew(manager, storage)
    ELSE managerSaved(manager, storage, Str(sanitizeName(newName)), 0)

\* ParserManager.duplicateParser(sourceName, newName)
duplicateParser(manager, storage, sourceName, newName, timestamp) ==
    IF \/ sourceName \notin DOMAIN manager.parsers
       \/ sanitizeName(newName) \in DOMAIN manager.parsers
    THEN managerThrew(manager, storage)
    ELSE duplicateSettled(
            duplicateCopy(manager, storage, sourceName, newName),
            createParser(manager,
                         duplicateCopy(manager, storage, sourceName, newName).storage,
                         newName,
                         S(<<"C","o","p","y"," ","o","f"," ">>) \o sourceName,
                         FALSE, timestamp))

\* ParserManager.getActiveParser
getActiveParser(manager) ==
    IF \/ manager.activeParser \in {Null, Undefined, Str(<<>>)}
       \/ manager.activeParser.s \notin DOMAIN manager.parsers
    THEN Null
    ELSE manager.parsers[manager.activeParser.s]

\* the names typed for a parser: "x", "X", "y" and a blank
ParserNames == {ParserX, S(<<"X">>), S(<<"y">>), S(<<" ">>)}

\* the parsers a call is made for: those of the manager, and "x"
ParserKeys == (DOMAIN pm.parsers) \cup {ParserX}

\* a method of the ParserManager has been called: the state after it
managerCall(op, args, out) ==
    /\ pm' = out.pm
    /\ localStorage' = out.storage
    /\ nextId' = nextId + out.ids
    /\ last' = [op       |-> op,
                args     |-> args,
                pm       |-> pm,
                storage  |-> localStorage,
                threw    |-> out.threw,
                ret      |-> out.ret,
                atReturn |-> out.atReturn]
    /\ clock' = clock + 1
    /\ prev' = last
    /\ UNCHANGED <<files, data, ls, nv, cmp, calls, view>>

PM_CreateParser(name, setAsActive) ==
    /\ clock < MaxClock
    /\ managerCall("PM.createParser", <<name>>,
                   createParserCall(pm, localStorage, name, setAsActive, toISOString(clock)))

PM_SetActiveParser(name) ==
    /\ clock < MaxClock
    /\ managerCall("PM.setActiveParser", <<name>>,
                   setActiveParser(pm, localStorage, name, toISOString(clock)))

PM_DeleteParser(name) ==
    /\ clock < MaxClock
    /\ managerCall("PM.deleteParser", <<name>>,
                   deleteParser(pm, localStorage, name, toISOString(clock)))

PM_RenameParser(oldName, newName) ==
    /\ clock < MaxClock
    /\ managerCall("PM.renameParser", <<oldName, newName>>,
                   renameParser(pm, localStorage, oldName, newName,
                                toISOString(clock), nextId))

PM_DuplicateParser(sourceName, newName) ==
    /\ clock < MaxClock
    /\ managerCall("PM.duplicateParser", <<sourceName, newName>>,
                   duplicateParser(pm, localStorage, sourceName, newName,
                                   toISOString(clock)))

\* a first visit: initialize() has created the parser 'default'
InitManager ==
    /\ files = (JsonFile :> <<Obj(Row_A)>>) @@ (SheetFile :> <<Obj(Row_A), Obj(Row_B)>>)
    /\ view = Globals
    /\ data = EmptyData
    /\ ls = EmptyDatabase
    /\ clock = 0
    /\ nextId = 0
    /\ last = NoCall
    /\ prev = NoCall
    /\ nv = Idle
    /\ cmp = Idle
    /\ calls = NoCalls
    /\ \E c1 \in {createParser(NoManager, <<>>, DefaultParser,
                                S(<<"D","e","f","a","u","l","t"," ","P","a","r","s","e","r">>),
                                TRUE, toISOString(0))} :
            /\ pm = c1.pm
            /\ localStorage = c1.storage

NextManager ==
    \/ \E name \in ParserNames, setAsActive \in BOOLEAN : PM_CreateParser(name, setAsActive)
    \/ \E name \in ParserKeys : PM_SetActiveParser(name)
    \/ \E name \in ParserKeys : PM_DeleteParser(name)
    \/ \E oldName \in ParserKeys, newName \in ParserNames : PM_RenameParser(oldName, newName)
    \/ \E sourceName \in ParserKeys, newName \in ParserNames :
            PM_DuplicateParser(sourceName, newName)
    \/ \E name \in DOMAIN pm.parsers, fileName \in FileNames : DB_AddRecords(name, fileName)

SpecManager == InitManager /\ [][NextManager]_vars

(***************************************************************************)
(* Two import invocations in flight.  Each is an async function: it runs   *)
(* until its next await, and resumes, in a step of its own, when the       *)
(* awaited parseFile resolves.  Everything between two awaits is one step. *)
(***************************************************************************)
\* the FileList of an invocation
FileLists ==
    {<<f>> : f \in FileNames} \cup
    {fs \in {<<f, g>> : f \in FileNames, g \in FileNames} : fs[1] # fs[2]}

\* an invocation up to its first await: the loop is at the first file
started(kind, fileList) ==
    [pc |-> "parsing", kind |-> kind, queue |-> fileList, handled |-> 0]

\* for (const file of ...): the next file, or the end of the invocation
nextFile(call) ==
    IF Len(call.queue) = 1 THEN [pc |-> "done"]
    ELSE [call EXCEPT !.queue = Tail(@), !.handled = @ + 1]

\* DataController.parseJSONFile: { ...record, checked: record.checked || false }
checkedOrFalse(record) ==
    Obj(Spread(record.o,
               (K_checked :>
                   IF K_checked \in DOMAIN record.o
                       /\ record.o[K_checked] \notin
                              {Null, Undefined, Bool(FALSE), Str(<<>>), Num(0)}
                   THEN record.o[K_checked]
                   ELSE Bool(FALSE))))

\* what DataController.parseFile resolves with
parsedData(items) == [i \in 1..Len(items) |-> checkedOrFalse(items[i])]

\* importFiles: activeDatabase.addRecords(data, file.name), a failure caught
importFile(fileName, parsed) ==
    /\ parsed # <<>>
    /\ clock < MaxClock
    /\ Len(ls.records) < MaxRecords
    /\ \E out \in {lsAddRecords(ls, localStorage, DefaultParser, parsed,
                                Str(fileName), toISOString(clock), nextId)} :
        /\ ls' = out.db
        /\ localStorage' = out.storage
        /\ nextId' = nextId + out.ids
        /\ last' = [op       |-> "DC.importFiles",
                    file     |-> fileName,
                    batch    |-> parsed,
                    before   |-> ls.records,
                    meta     |-> ls.metadata,
                    threw    |-> out.threw,
                    outcomes |-> out.outcomes,
                    seen     |-> out.seen,
                    ret      |-> out.ret]
    /\ clock' = clock + 1
    /\ prev' = last
    /\ UNCHANGED <<files, data, nv, cmp, pm, view>>

\* if (data && data.length > 0) ... else: nothing is imported from the file
noData(fileName, reloads) ==
    /\ files[fileName] = <<>>
    /\ \E shown \in {afterImport(view, data, reloads)} :
        /\ data' = shown.data
        /\ view' = shown.view
    /\ UNCHANGED <<files, ls, localStorage, clock, nextId, last, prev, nv, cmp, pm>>

\* processUpdateFiles(files), up to the first await parseFile(file)
PF_ProcessUpdateFiles(inv, fileList) ==
    /\ calls[inv].pc = "idle"
    /\ calls' = [calls EXCEPT ![inv] = started("processUpdateFiles", fileList)]
    /\ UNCHANGED <<files, data, ls, localStorage, clock, nextId, last, prev, nv, cmp, pm, view>>

\* DataController.importFiles(files), up to the first await this.parseFile(file)
DC_ImportFiles(inv, fileList) ==
    /\ calls[inv].pc = "idle"
    /\ calls' = [calls EXCEPT ![inv] = started("importFiles", fileList)]
    /\ UNCHANGED <<files, data, ls, localStorage, clock, nextId, last, prev, nv, cmp, pm, view>>

\* processUpdateFiles resumes: parseFile(file) has resolved
PF_ParseResolved(inv) ==
    /\ calls[inv].pc = "parsing"
    /\ calls[inv].kind = "processUpdateFiles"
    /\ \/ processFile(Head(calls[inv].queue), Len(calls[inv].queue) = 1)
       \/ noData(Head(calls[inv].queue), Len(calls[inv].queue) = 1)
    /\ calls' = [calls EXCEPT ![inv] = nextFile(@)]

\* importFiles resumes: this.parseFile(file) has resolved
DC_ParseResolved(inv) ==
    /\ calls[inv].pc = "parsing"
    /\ calls[inv].kind = "importFiles"
    /\ \/ importFile(Head(calls[inv].queue), parsedData(files[Head(calls[inv].queue)]))
       \/ noData(Head(calls[inv].queue), FALSE)
    /\ calls' = [calls EXCEPT ![inv] = nextFile(@)]

InitConcurrent ==
    /\ files \in {(JsonFile :> json) @@ (SheetFile :> sheet) :
                    json \in BatchesOf({Obj(Row_A), Obj(Row_B)}),
                    sheet \in BatchesOf({Obj(Row_A)})}
    /\ Fresh
    /\ nv = Idle
    /\ cmp = Idle

NextConcurrent ==
    \E inv \in Invocations :
        \/ \E fileList \in FileLists : PF_ProcessUpdateFiles(inv, fileList)
        \/ \E fileList \in FileLists : DC_ImportFiles(inv, fileList)
        \/ PF_ParseResolved(inv)
        \/ DC_ParseResolved(inv)

SpecConcurrent == InitConcurrent /\ [][NextConcurrent]_vars

(***************************************************************************)
(* normalizeValue on its own: Init draws the argument, the action calls.   *)
(***************************************************************************)
\* the spellings of s in upper and lower case letters
RECURSIVE CaseVariants(_)
CaseVariants(s) ==
    IF s = <<>> THEN {<<>>}
    ELSE {<<c>> \o rest : c \in {Head(s), UpperChar(Head(s))},
                          rest \in CaseVariants(Tail(s))}

\* runs of blanks and tabs, at most MaxPad long
Pads == UNION {[1..n -> {32, 9}] : n \in 0..MaxPad}

Numbers == {0, 1, 30, 42, 0 - 5}

\* the strings normalizeValue is called with, in lower case and trimmed
Cores ==
    {<<>>, S(<<"n","u","l","l">>), S(<<"u","n","d","e","f","i","n","e","d">>),
     S(<<"n","/","a">>), S(<<"-">>),
     S(<<"y","e","s">>), S(<<"t","r","u","e">>), S(<<"n","o">>),
     S(<<"f","a","l","s","e">>), S(<<"a">>), S(<<"b","o","b">>)}
    \cup {NumberToString(n) : n \in Numbers}

NormalizeInputs ==
    {[done |-> FALSE, origin |-> Str(core), value |-> Str(lp \o spelled \o rp)] :
        <<core, spelled, lp, rp>> \in
            {<<c, v, l, r>> \in Cores \X (UNION {CaseVariants(c) : c \in Cores})
                                 \X Pads \X Pads : v \in CaseVariants(c)}}
    \cup {[done |-> FALSE, origin |-> v, value |-> v] :
            v \in {Null, Undefined, Bool(TRUE), Bool(FALSE)}
                  \cup {Num(n) : n \in Numbers}}

InitNormalize ==
    /\ files = [f \in FileNames |-> <<>>]
    /\ Fresh
    /\ nv \in NormalizeInputs
    /\ cmp = Idle

NormalizeValueCall ==
    /\ ~nv.done
    /\ nv' = [done   |-> TRUE,
              origin |-> nv.origin,
              value  |-> nv.value,
              result |-> normalizeValue(nv.value)]
    /\ UNCHANGED <<files, data, ls, localStorage, clock, nextId, last, prev, cmp, pm, calls, view>>

NextNormalize == NormalizeValueCall

SpecNormalize == InitNormalize /\ [][NextNormalize]_vars

(***************************************************************************)
(* recordsAreIdentical on its own.                                         *)
(***************************************************************************)
CompareKeys == {K_name, K_age, K_id}

CompareValues == {Str(S(<<"A">>)), Str(S(<<"N","/","A">>)), Num(30), Null}

CompareRecords == UNION {[ks -> CompareValues] : ks \in SUBSET CompareKeys}

InitIdentical ==
    /\ files = [f \in FileNames |-> <<>>]
    /\ Fresh
    /\ nv = Idle
    /\ cmp \in {[done |-> FALSE, record1 |-> a, record2 |-> b] :
                    a \in CompareRecords, b \in CompareRecords}

RecordsAreIdenticalCall ==
    /\ ~cmp.done
    /\ cmp' = [done    |-> TRUE,
               record1 |-> cmp.record1,
               record2 |-> cmp.record2,
               result  |-> recordsAreIdentical(cmp.record1, cmp.record2)]
    /\ UNCHANGED <<files, data, ls, localStorage, clock, nextId, last, prev, nv, pm, calls, view>>

NextIdentical == RecordsAreIdenticalCall

SpecIdentical == InitIdentical /\ [][NextIdentical]_vars

(***************************************************************************)
(* Claims about ParseFlowDB.addRecords, checked under Spec.                *)
(***************************************************************************)
LastIsImport == last.op = "PF.addRecords"

\* the records the last import appended to the store
Appended == SubSeq(data.records, Len(last.before) + 1, Len(data.records))

\* the data fields of a stored record: the record without its metadata
DataOf(record) == [k \in DataKeys(record) |-> record[k]]

\* batch positions the last import reported as duplicates / stored
ReportedDuplicate(record) ==
    \E k \in 1..Len(last.ret.importStats.duplicateDetails) :
        last.ret.importStats.duplicateDetails[k].record = record

Stored(record) == \E k \in 1..Len(Appended) : DataOf(Appended[k]) = DataOf(record)

\* C1: once addRecords(batch) has been applied, a second addRecords(batch)
\* reports added = 0 and duplicates = |batch| and leaves the list of stored
\* records as it was.
C1_Idempotent ==
    (/\ prev.op = "PF.addRecords"
     /\ LastIsImport
     /\ last.batch = prev.batch)
    => /\ last.ret.importStats.added = 0
       /\ last.ret.importStats.duplicates = Len(last.batch)
       /\ data.records = last.before

\* a batch of two rows or more is imported twice in a row into a store that
\* held records before the first of the two imports
C1_Witness ==
    /\ prev.op = "PF.addRecords"
    /\ LastIsImport
    /\ last.batch = prev.batch
    /\ Len(last.batch) >= 2
    /\ prev.before # <<>>
    /\ last.ret.importStats.duplicates = Len(last.batch)

\* batch positions whose record is identical to an earlier record of the batch
IntraBatchRepeats(batch) ==
    {j \in 1..Len(batch) : \E i \in 1..(j - 1) : recordsAreIdentical(batch[j], batch[i])}

\* C3: a record identical to an earlier record of the same batch is reported
\* as a duplicate and is not stored; [{name:"A"},{name:"A"}] imported into an
\* empty store: 1 accepted, 1 duplicate.
C3_IntraBatchDuplicates ==
    LastIsImport =>
        /\ last.ret.importStats.duplicates >= Cardinality(IntraBatchRepeats(last.batch))
        /\ Len(Appended) <= Len(last.batch) - Cardinality(IntraBatchRepeats(last.batch))
        /\ (last.batch = <<Row_A, Row_A>> /\ last.before = <<>>)
            => /\ last.ret.importStats.added = 1
               /\ last.ret.importStats.duplicates = 1

\* value a is the number whose decimal string is value b
NumberVsString(a, b) ==
    a.t = "number" /\ b.t = "string" /\ b.s = NumberToString(a.n)

\* the two records have the same data fields and differ only in that a
\* number on one side is its decimal string on the other
DifferOnlyInNumericForm(a, b) ==
    /\ DataKeys(a) = DataKeys(b)
    /\ \A k \in DataKeys(a) :
        a[k] = b[k] \/ NumberVsString(a[k], b[k]) \/ NumberVsString(b[k], a[k])

\* C6: an incoming record that differs from a stored record only in the
\* form of a numeric value (age "30" vs age 30) is reported as a duplicate
\* and is not stored.
C6_NumericFormDuplicate ==
    LastIsImport =>
        \A j \in 1..Len(last.batch) :
            (\E i \in 1..Len(last.before) :
                DifferOnlyInNumericForm(last.batch[j], last.before[i]))
            => ReportedDuplicate(last.batch[j]) /\ ~Stored(last.batch[j])

\* the two records have the same field names and some normalized value differs
SameFieldsOtherValues(a, b) ==
    /\ DataKeys(a) = DataKeys(b)
    /\ \E k \in DataKeys(a) : normalizeValue(a[k]) # normalizeValue(b[k])

IdenticalToNoStored(record) ==
    \A i \in 1..Len(last.before) : ~recordsAreIdentical(record, last.before[i])

\* C10: two records of a batch with the same field names and a different
\* normalized value for some field, neither identical to a stored record,
\* are both accepted and stored, and neither is reported as a duplicate.
C10_DifferentValuesAccepted ==
    LastIsImport =>
        \A i, j \in 1..Len(last.batch) :
            (/\ i < j
             /\ SameFieldsOtherValues(last.batch[i], last.batch[j])
             /\ IdenticalToNoStored(last.batch[i])
             /\ IdenticalToNoStored(last.batch[j]))
            => /\ Stored(last.batch[i]) /\ Stored(last.batch[j])
               /\ ~ReportedDuplicate(last.batch[i])
               /\ ~ReportedDuplicate(last.batch[j])
               /\ last.ret.importStats.added >= 2

\* {name:"A",age:"30"} and {name:"A",age:"26"} are imported together into a
\* store that holds other records, and both are stored
C10_Witness ==
    /\ LastIsImport
    /\ last.before # <<>>
    /\ last.batch = <<Row_A30s, Row_A26s>>
    /\ last.ret.importStats.added = 2
    /\ last.ret.importStats.duplicates = 0

\* the stored records, in store order, the batch record is identical to
MatchesOf(record) ==
    {i \in 1..Len(last.before) : recordsAreIdentical(record, last.before[i])}

\* the batch positions whose record is identical to some stored record
DuplicatePositions == {j \in 1..Len(last.batch) : MatchesOf(last.batch[j]) # {}}

\* the k-th of them, in batch order
NthDuplicate(k) ==
    CHOOSE j \in DuplicatePositions :
        Cardinality({i \in DuplicatePositions : i < j}) = k - 1

\* the first stored record, in store order, the batch record is identical to
FirstMatch(record) ==
    last.before[CHOOSE i \in MatchesOf(record) : \A m \in MatchesOf(record) : i <= m]

\* C20: duplicateDetails has one entry per duplicate record, in batch order,
\* and the duplicateOf of each entry carries the _id, _source and _dateAdded
\* of the first stored record, in store order, that is identical to it.
C20_FirstMatchReference ==
    LastIsImport =>
        /\ Len(last.ret.importStats.duplicateDetails) = Cardinality(DuplicatePositions)
        /\ last.ret.importStats.duplicates = Cardinality(DuplicatePositions)
        /\ \A k \in 1..Len(last.ret.importStats.duplicateDetails) :
            /\ last.ret.importStats.duplicateDetails[k].record = last.batch[NthDuplicate(k)]
            /\ last.ret.importStats.duplicateDetails[k].duplicateOf.id
                    = FirstMatch(last.batch[NthDuplicate(k)])[K_id]
            /\ last.ret.importStats.duplicateDetails[k].duplicateOf.source
                    = FirstMatch(last.batch[NthDuplicate(k)])[K_source]
            /\ last.ret.importStats.duplicateDetails[k].duplicateOf.dateAdded
                    = FirstMatch(last.batch[NthDuplicate(k)])[K_dateAdded]

\* a record identical to two stored records has been reported as a
\* duplicate of the first of them
C20_Witness ==
    /\ LastIsImport
    /\ last.ret.importStats.duplicates >= 1
    /\ Cardinality(MatchesOf(last.ret.importStats.duplicateDetails[1].record)) >= 2
    /\ last.ret.importStats.duplicateDetails[1].duplicateOf.id = last.before[1][K_id]

(***************************************************************************)
(* Claims about LocalStorageDatabase.addRecords, checked under SpecLS.     *)
(***************************************************************************)
LastIsLSImport == last.op = "LS.addRecords"

\* C2: once a batch of valid records has been imported, importing a fresh
\* copy of the same rows reports newRecords = 0 and duplicates = |batch| and
\* stores nothing.
C2_LSIdempotent ==
    (/\ prev.op = "LS.addRecords" /\ ~prev.threw
     /\ LastIsLSImport /\ ~last.threw
     /\ last.batch = prev.batch
     /\ \A j \in 1..Len(last.batch) : validateRecord(last.batch[j]))
    => /\ last.ret.newRecords = 0
       /\ last.ret.duplicates = Len(last.batch)
       /\ ls.records = last.before

\* the number of records the last import accepted among batch[1..i]
AcceptedUpTo(i) == Cardinality({k \in 1..i : last.outcomes[k] = "new"})

\* the data of the record the last import stored for batch[i]
AcceptedData(i) == ls.records[Len(last.before) + AcceptedUpTo(i)].data

\* C4: an incoming valid record whose data equals that of a stored record,
\* or of a record accepted earlier in the same call, is counted as a
\* duplicate and is not appended.
C4_LSDuplicateOfSeen ==
    LastIsLSImport =>
        \A j \in 1..Len(last.batch) :
            (/\ validateRecord(last.batch[j])
             /\ \/ \E i \in 1..Len(last.before) : last.before[i].data = last.batch[j]
                \/ \E i \in 1..(j - 1) : /\ last.outcomes[i] = "new"
                                         /\ AcceptedData(i) = last.batch[j])
            => last.outcomes[j] = "duplicate"

(***************************************************************************)
(* Claims about invalid items, checked under SpecLSItems.                  *)
(***************************************************************************)
\* the item is null, not an object, or an object none of whose values is
\* other than null, undefined and ''
IsInvalidItem(item) ==
    \/ item.t # "object"
    \/ \A k \in DOMAIN item.o : item.o[k] \in {Null, Undefined, Str(<<>>)}

InvalidPositions(batch) == {j \in 1..Len(batch) : IsInvalidItem(batch[j])}

\* the hashes of the data of the records in records
HashesOf(records) == {generateRecordHash(records[i].data) : i \in 1..Len(records)}

\* C11: every batch item that is null, not an object, or an object without a
\* usable value is counted in invalid and in totalRecords, in neither
\* newRecords nor duplicates, is not stored and adds no hash to the seen
\* hashes; the other items of the batch are still processed.
C11_InvalidItemsCounted ==
    LastIsLSImport =>
        /\ \A j \in InvalidPositions(last.batch) : last.outcomes[j] = "invalid"
        /\ last.ret.invalid = Cardinality(InvalidPositions(last.batch))
        /\ last.ret.totalRecords = Len(last.batch)
        /\ last.ret.newRecords + last.ret.duplicates
                = Len(last.batch) - Cardinality(InvalidPositions(last.batch))
        /\ Len(ls.records) = Len(last.before) + last.ret.newRecords
        /\ \A i \in 1..Len(ls.records) : ~IsInvalidItem(ls.records[i].data)
        /\ last.seen = HashesOf(last.before)
                        \cup {generateRecordHash(last.batch[j]) :
                                j \in {j \in 1..Len(last.batch) : last.outcomes[j] = "new"}}

\* [null, {name:"A"}] or [{}, {name:"A"}] has been imported into a store that
\* holds records: the first item is invalid, the second one is processed
C11_Witness ==
    /\ LastIsLSImport
    /\ last.before # <<>>
    /\ last.batch \in {<<Item_Null, Obj(Row_A)>>, <<Item_Empty, Obj(Row_A)>>}
    /\ last.ret.invalid = 1
    /\ last.ret.totalRecords = 2
    /\ last.outcomes[2] # "invalid"

(***************************************************************************)
(* Claims about imports of either database, checked under SpecImports.     *)
(***************************************************************************)
\* the last call was ParseFlowDB.addRecords and it returned
PFReturned ==
    /\ last.op \in {"PF.addRecords", "PF.initializeDashboard"}
    /\ ~last.threw

\* the last call was LocalStorageDatabase.addRecords and it returned
LSReturned == LastIsLSImport /\ ~last.threw

\* C12: every addRecords call that returns accounts for each record it was
\* given: total = added + duplicates (ParseFlowDB), totalRecords = newRecords
\* + duplicates + invalid (LocalStorageDatabase), the total is the length of
\* the batch, and the store grows by the accepted count.
C12_Accounted ==
    /\ PFReturned =>
        /\ last.ret.importStats.total = Len(last.batch)
        /\ last.ret.importStats.total
                = last.ret.importStats.added + last.ret.importStats.duplicates
        /\ Len(data.records) = Len(last.before) + last.ret.importStats.added
        /\ SubSeq(data.records, 1, Len(last.before)) = last.before
    /\ LSReturned =>
        /\ last.ret.totalRecords = Len(last.batch)
        /\ last.ret.totalRecords
                = last.ret.newRecords + last.ret.duplicates + last.ret.invalid
        /\ Len(ls.records) = Len(last.before) + last.ret.newRecords
        /\ SubSeq(ls.records, 1, Len(last.before)) = last.before

\* an import of two rows into a store that holds records has returned with
\* one row accepted and the other one a duplicate
C12_Witness ==
    /\ PFReturned
    /\ last.before # <<>>
    /\ last.ret.importStats.total = 2
    /\ last.ret.importStats.added = 1
    /\ last.ret.importStats.duplicates = 1

\* every value of the row normalizes to null
AllValuesNormalizeToNull(row) == \A k \in DOMAIN row : normalizeValue(row[k]) = Null

\* C13: a record all of whose values normalize to null ({name:"N/A"}) is
\* never stored: not by processUpdateFiles (validateAndCleanData, then
\* ParseFlowDB.addRecords), where no stored record is left with such data,
\* and not by LocalStorageDatabase.addRecords, which counts it as invalid.
C13_AllNullRejected ==
    /\ last.op = "PF.addRecords" =>
            \A k \in 1..Len(Appended) : ~AllValuesNormalizeToNull(DataOf(Appended[k]))
    /\ LastIsLSImport =>
            \A j \in 1..Len(last.batch) :
                (last.batch[j].t = "object" /\ AllValuesNormalizeToNull(last.batch[j].o))
                => last.outcomes[j] = "invalid"

\* the uploaded items that are key-value mappings
MappingPositions(raw) == {j \in 1..Len(raw) : raw[j].t = "object"}

\* C14: ParseFlowDB.addRecords, called by initializeDashboard with a batch
\* that holds a null item, returns with its statistics, stores no record
\* for the null item, and stores or reports as duplicate every other record
\* of the batch.
C14_MalformedItemSkipped ==
    (/\ last.op = "PF.initializeDashboard"
     /\ \E j \in 1..Len(last.raw) : last.raw[j] = Item_Null)
    => /\ ~last.threw
       /\ last.ret.importStats.total = Len(last.raw)
       /\ \A k \in 1..Len(Appended) :
            \E j \in MappingPositions(last.raw) : DataOf(Appended[k]) = last.raw[j].o
       /\ \A j \in MappingPositions(last.raw) :
            Stored(last.raw[j].o) \/ ReportedDuplicate(last.raw[j].o)

\* C15: when the write to localStorage fails during addRecords (saveData
\* returns false, saveToStorage throws), the records and the metadata held
\* in memory are the same as before the call.
C15_FailedWriteCommitsNothing ==
    /\ (PFReturned /\ ~last.saved) =>
            /\ data.records = last.before
            /\ data.metadata = last.meta
    /\ (LastIsLSImport /\ last.threw) =>
            /\ ls.records = last.before
            /\ ls.metadata = last.meta

(***************************************************************************)
(* Claims about normalizeValue, checked under SpecNormalize.               *)
(***************************************************************************)
\* the argument was spelled from this trimmed, lower-case string
SpelledFrom(core) == nv.origin.t = "string" /\ nv.origin.s = core

\* C5: the string form of a number n, bare or padded with whitespace,
\* normalizes to the same value as the number n itself.
C5_NumericStringIsNumber ==
    nv.done =>
        \A n \in Numbers :
            SpelledFrom(NumberToString(n)) => nv.result = normalizeValue(Num(n))

SentinelCores ==
    {<<>>, S(<<"n","u","l","l">>), S(<<"u","n","d","e","f","i","n","e","d">>),
     S(<<"n","/","a">>), S(<<"-">>)}

\* C7: null, undefined and every string that, trimmed and compared without
\* regard to case, is one of "", "null", "undefined", "n/a", "-" normalize
\* to null.
C7_SentinelsAreNull ==
    nv.done =>
        ((\/ nv.origin.t \in {"null", "undefined"}
          \/ \E core \in SentinelCores : SpelledFrom(core))
         => nv.result = Null)

\* "N/A" in some mix of cases, padded with whitespace, has been normalized
C7_Witness ==
    /\ nv.done
    /\ SpelledFrom(S(<<"n","/","a">>))
    /\ Len(nv.value.s) > 3
    /\ nv.value.s[2] = 78
    /\ nv.result = Null

TrueCores  == {S(<<"y","e","s">>), S(<<"t","r","u","e">>), S(<<"1">>)}
FalseCores == {S(<<"n","o">>), S(<<"f","a","l","s","e">>), S(<<"0">>)}

\* C8: "yes", "true" and "1", in any case, normalize to the same value as
\* true; "no", "false" and "0" to the same value as false.
C8_BooleanStrings ==
    nv.done =>
        /\ (\E core \in TrueCores : SpelledFrom(core))
            => nv.result = normalizeValue(Bool(TRUE))
        /\ (\E core \in FalseCores : SpelledFrom(core))
            => nv.result = normalizeValue(Bool(FALSE))

(***************************************************************************)
(* Claims about recordsAreIdentical, checked under SpecIdentical.          *)
(***************************************************************************)
\* the number of fields whose name does not start with '_'
FieldCount(record) == Cardinality({k \in DOMAIN record : k[1] # CharCode["_"]})

\* C9: two records whose numbers of non-metadata fields differ are never
\* identical, whatever their values.
C9_FieldCountDiffers ==
    (cmp.done /\ FieldCount(cmp.record1) # FieldCount(cmp.record2))
    => cmp.result = FALSE

\* {name:"A"} has been compared with {name:"A", age:"N/A"}: the extra field
\* normalizes to null
C9_Witness ==
    /\ cmp.done
    /\ cmp.record1 = (K_name :> Str(S(<<"A">>)))
    /\ cmp.record2 = (K_name :> Str(S(<<"A">>))) @@ (K_age :> Str(S(<<"N","/","A">>)))
    /\ cmp.result = FALSE

\* the record with its metadata removed, and with each value of CompareValues
\* as its _id
MetaVariants(record) ==
    {DataOf(record)} \cup {Spread(DataOf(record), (K_id :> v)) : v \in CompareValues}

\* C16: the result of recordsAreIdentical is the same when a field whose name
\* starts with '_' is added to, removed from or changed in either record;
\* hence a record is identical to a copy of it that carries metadata.
C16_MetadataExcluded ==
    cmp.done =>
        /\ \A a \in MetaVariants(cmp.record1), b \in MetaVariants(cmp.record2) :
                recordsAreIdentical(a, b) = cmp.result
        /\ DataOf(cmp.record1) = DataOf(cmp.record2) => cmp.result = TRUE

\* {name:"A"} has been compared with {name:"A", _id:30} and found identical
C16_Witness ==
    /\ cmp.done
    /\ cmp.record1 = (K_name :> Str(S(<<"A">>)))
    /\ cmp.record2 = (K_name :> Str(S(<<"A">>))) @@ (K_id :> Num(30))
    /\ cmp.result = TRUE

\* the names of the fields that are not metadata
FieldNames(record) == {k \in DOMAIN record : k[1] # CharCode["_"]}

\* the normalized value of a field, a missing field counting as null
NormalizedField(record, key) ==
    IF key \in DOMAIN record THEN normalizeValue(record[key]) ELSE Null

\* C19: recordsAreIdentical(a, b) is true exactly when a and b have the same
\* number of non-metadata fields and, for every field name of either, the
\* two normalized values are both null or equal, a missing field counting as
\* null; records with disjoint field names are identical when all their
\* values normalize to null.
C19_IdenticalExactlyWhen ==
    cmp.done =>
        (cmp.result = TRUE
         <=> /\ FieldCount(cmp.record1) = FieldCount(cmp.record2)
             /\ \A key \in FieldNames(cmp.record1) \cup FieldNames(cmp.record2) :
                    NormalizedField(cmp.record1, key) = NormalizedField(cmp.record2, key))

\* {name:"N/A"} has been compared with {age:null}: no field name in common,
\* and the two are identical
C19_Witness ==
    /\ cmp.done
    /\ cmp.record1 = (K_name :> Str(S(<<"N","/","A">>)))
    /\ cmp.record2 = (K_age :> Null)
    /\ cmp.result = TRUE

(***************************************************************************)
(* The dashboard's card view in use: records are imported, searched,       *)
(* filtered, sorted, paged through, opened and deleted.                    *)
(***************************************************************************)
\* {name:"B", company:"C"}
Row_BC == (K_name :> Str(S(<<"B">>))) @@ (K_company :> Str(S(<<"C">>)))

\* what is typed into #searchInput
Queries == {<<>>, S(<<"b">>)}

\* the options of #companyFilter: "All Companies" and the companies on record
Companies ==
    {<<>>} \cup {getFieldValue(data.records[i], companyFields).s :
                    i \in 1..Len(data.records)}

\* values of #sortBy: by date, and one the switch of sortRecords does not name
SortKeys == {<<>>, S(<<"d","a","t","e">>)}

\* the pages changePage is called with
Pages == 0..(MaxRecords + 2)

\* nothing reloaded: the view and db.data stay
unchangedView == [view |-> view, data |-> data]

\* a handler of the card view that calls no method of db that writes
cardsCall(op, arg, shown, reloaded) ==
    /\ view' = handled(op, arg, view, data, shown, reloaded).view
    /\ data' = shown.data
    /\ UNCHANGED <<files, ls, localStorage, clock, nextId, last, prev, nv, cmp, pm, calls>>

\* handleSearch: the input event of #searchInput
handleSearch(query) ==
    cardsCall("handleSearch", Str(query),
              loadCards([view EXCEPT !.searchInput = query, !.currentPage = 1], data),
              TRUE)

\* handleFilter: the change event of #companyFilter
handleFilter(company) ==
    cardsCall("handleFilter", Str(company),
              loadCards([view EXCEPT !.companyFilter = company, !.currentPage = 1], data),
              TRUE)

\* handleSort: the change event of #sortBy
handleSort(sortBy) ==
    cardsCall("handleSort", Str(sortBy),
              loadCards([view EXCEPT !.sortBy = sortBy, !.currentPage = 1], data),
              TRUE)

\* changePage: if (page >= 1 && page <= totalPages)
pageExists(page) ==
    page >= 1 /\ page <= totalPagesOf(Len(filteredRecords(view, data)))

\* changePage(page)
changePage(page) ==
    cardsCall("changePage", Num(page),
              IF pageExists(page)
              THEN loadCards([view EXCEPT !.currentPage = page], data)
              ELSE unchangedView,
              pageExists(page))

\* ParseFlowDB.getRecord(id) finds a record
hasRecord(db, id) == \E i \in 1..Len(db.records) : Get(db.records[i], K_id) = id

\* showRecordDetails(recordId): a card on screen is clicked
showRecordDetails(recordId) ==
    cardsCall("showRecordDetails", recordId,
              IF hasRecord(data, recordId)
              THEN [view |-> [view EXCEPT !.selectedRecordId = recordId], data |-> data]
              ELSE unchangedView,
              FALSE)

\* closeModal()
closeModal ==
    cardsCall("closeModal", Null,
              [view |-> [view EXCEPT !.selectedRecordId = Null], data |-> data],
              FALSE)

\* this.data.records.findIndex(record => record._id === id), counted from 1
indexOfId(records, id) ==
    CHOOSE i \in 1..Len(records) :
        /\ Get(records[i], K_id) = id
        /\ \A m \in 1..(i - 1) : Get(records[m], K_id) # id

\* ParseFlowDB.deleteRecord: return this.saveData()
dbDeleteSave(newData, save) ==
    [data |-> newData, storage |-> save.storage, result |-> save.result]

\* ParseFlowDB.deleteRecord(id) on this.data = db
dbDeleteRecord(db, storage, id, timestamp) ==
    IF ~hasRecord(db, id)
    THEN [data |-> db, storage |-> storage, result |-> FALSE]
    ELSE dbDeleteSave(
            [db EXCEPT !.records = splice(@, indexOfId(db.records, id)),
                       !.metadata.lastUpdated = timestamp],
            saveData(storage,
                [db EXCEPT !.records = splice(@, indexOfId(db.records, id)),
                           !.metadata.lastUpdated = timestamp]))

\* deleteRecord once db.deleteRecord(selectedRecordId) has returned: if it
\* returned true, closeModal() and loadDashboardData()
deleteRecordDone(out) ==
    \E shown \in {handled("deleteRecord", view.selectedRecordId, view, data,
                          IF out.result
                          THEN loadDashboardData([view EXCEPT !.selectedRecordId = Null],
                                                 out.data)
                          ELSE [view |-> view, data |-> out.data],
                          out.result)} :
        /\ view' = shown.view
        /\ data' = shown.data
        /\ localStorage' = out.storage
        /\ last' = [op     |-> "PF.deleteRecord",
                    id     |-> view.selectedRecordId,
                    before |-> data.records,
                    threw  |-> FALSE,
                    ret    |-> out.result]

\* deleteRecord(): the button of the detail modal, once confirm() has
\* returned true
deleteRecord ==
    /\ view.selectedRecordId # Null
    /\ clock < MaxClock
    /\ deleteRecordDone(dbDeleteRecord(data, localStorage, view.selectedRecordId,
                                       toISOString(clock)))
    /\ clock' = clock + 1
    /\ prev' = last
    /\ UNCHANGED <<files, ls, nextId, nv, cmp, pm, calls>>

InitCards ==
    /\ files = (JsonFile :> <<Obj(Row_A), Obj(Row_BC)>>) @@
               (SheetFile :> <<Obj(Row_B), Obj(Row_A30n)>>)
    /\ Fresh
    /\ nv = Idle
    /\ cmp = Idle

NextCards ==
    \/ \E fileName \in FileNames : PF_AddRecords(fileName)
    \/ \E query \in Queries : handleSearch(query)
    \/ \E company \in Companies : handleFilter(company)
    \/ \E sortBy \in SortKeys : handleSort(sortBy)
    \/ \E page \in Pages : changePage(page)
    \/ \E i \in 1..Len(view.cards) : showRecordDetails(view.cards[i])
    \/ closeModal
    \/ deleteRecord

SpecCards == InitCards /\ [][NextCards]_vars

(***************************************************************************)
(* recordsAreIdentical on records whose field is an object or an array.    *)
(***************************************************************************)
K_a == S(<<"a">>)
K_b == S(<<"b">>)

\* {a: x, b: y} and {b: y, a: x}
FlatObjects ==
    UNION {{PlainObject(<<[k |-> K_a, v |-> x], [k |-> K_b, v |-> y]>>),
            PlainObject(<<[k |-> K_b, v |-> y], [k |-> K_a, v |-> x]>>)} :
           x \in {Num(1), Num(2)}, y \in {Num(1), Num(2)}}

\* [x, y]
FlatArrays == {Array(<<x, y>>) : x \in {Num(1), Num(2)}, y \in {Num(1), Num(2)}}

\* the objects whose keys are in the two orders at the second level
DeepObjects ==
    {PlainObject(<<[k |-> K_a, v |-> o]>>) :
        o \in {f \in FlatObjects : valueAt(f, K_a) = Num(1)}}

\* arrays of one object, and of one array
DeepArrays ==
    {Array(<<o>>) : o \in {f \in FlatObjects : valueAt(f, K_a) = Num(1)} \cup FlatArrays}

NestedValues == FlatObjects \cup FlatArrays \cup DeepObjects \cup DeepArrays

InitNested ==
    /\ files = [f \in FileNames |-> <<>>]
    /\ Fresh
    /\ nv = Idle
    /\ cmp \in {[done |-> FALSE, record1 |-> (K_name :> v), record2 |-> (K_name :> w)] :
                    v \in NestedValues, w \in NestedValues}

SpecNested == InitNested /\ [][NextIdentical]_vars

(***************************************************************************)
(* Claims about nested values, checked under SpecNested.                   *)
(***************************************************************************)
KeysOf(obj) == {obj.entries[i].k : i \in 1..Len(obj.entries)}

\* v and w are the same value but for the order of the keys of the objects
\* in them, at any depth
RECURSIVE SameUpToKeyOrder(_, _)
SameUpToKeyOrder(v, w) ==
    IF v.t = "plain" /\ w.t = "plain"
    THEN /\ KeysOf(v) = KeysOf(w)
         /\ \A key \in KeysOf(v) : SameUpToKeyOrder(valueAt(v, key), valueAt(w, key))
    ELSE IF v.t = "array" /\ w.t = "array"
    THEN /\ Len(v.items) = Len(w.items)
         /\ \A i \in 1..Len(v.items) : SameUpToKeyOrder(v.items[i], w.items[i])
    ELSE v = w

\* v and w are arrays of the same elements, in different orders
SameElementsOtherOrder(v, w) ==
    /\ v.t = "array" /\ w.t = "array"
    /\ Len(v.items) = Len(w.items)
    /\ v.items # w.items
    /\ \A x \in {v.items[i] : i \in 1..Len(v.items)} \cup {w.items[i] : i \in 1..Len(w.items)} :
            Cardinality({i \in 1..Len(v.items) : v.items[i] = x})
                = Cardinality({i \in 1..Len(w.items) : w.items[i] = x})

\* C22: two records whose field values are the same but for the order of the
\* keys of their objects, at any depth, are identical; two records whose
\* field values are arrays of the same elements in different orders are not.
C22_NestedCanonical ==
    cmp.done =>
        /\ SameUpToKeyOrder(cmp.record1[K_name], cmp.record2[K_name]) => cmp.result = TRUE
        /\ SameElementsOtherOrder(cmp.record1[K_name], cmp.record2[K_name])
                => cmp.result = FALSE

\* C22: {name:{a:{a:1,b:2}}} has been compared with {name:{a:{b:2,a:1}}}
C22_Witness ==
    /\ cmp.done
    /\ cmp.record1[K_name] =
            PlainObject(<<[k |-> K_a, v |->
                PlainObject(<<[k |-> K_a, v |-> Num(1)], [k |-> K_b, v |-> Num(2)]>>)]>>)
    /\ cmp.record2[K_name] =
            PlainObject(<<[k |-> K_a, v |->
                PlainObject(<<[k |-> K_b, v |-> Num(2)], [k |-> K_a, v |-> Num(1)]>>)]>>)
    /\ cmp.result = TRUE

(***************************************************************************)
(* Claims about the parsers' databases, checked under SpecParsers.         *)
(***************************************************************************)
\* what localStorage.getItem(key) gives: the item, or nothing
Persisted(storage, key) ==
    IF key \in DOMAIN storage THEN storage[key] ELSE [json |-> "none"]

LastIsDatabaseCall ==
    last.op \in {"DB.addRecords", "DB.updateRecord", "DB.deleteRecord", "DB.clearData"}

\* C18: an operation on the database of parser P leaves, for every other
\* parser Q, the records and the metadata persisted for Q as they were, and
\* leaves the persisted parser list of the ParserManager as it was.
C18_ParsersIsolated ==
    LastIsDatabaseCall =>
        /\ \A q \in (DOMAIN pm.parsers) \ {last.parser} :
            /\ Persisted(localStorage, storageKey(q)) = Persisted(last.storage, storageKey(q))
            /\ Persisted(localStorage, metaKey(q)) = Persisted(last.storage, metaKey(q))
        /\ Persisted(localStorage, parsersKey) = Persisted(last.storage, parsersKey)

(***************************************************************************)
(* Claims about imports in flight together, checked under SpecConcurrent.  *)
(***************************************************************************)
\* C17: however the steps of two import invocations interleave, no record is
\* accepted by an addRecords call while a record the call's duplicate check
\* matches is already stored: two stored records of ParseFlowDB that
\* recordsAreIdentical matches come from the same call, and so do two stored
\* records of the LocalStorageDatabase with the same hash of their data.
C17_NoSecondAcceptance ==
    /\ \A i \in 1..Len(data.records) : \A j \in 1..Len(data.records) :
            data.records[i][K_dateAdded] # data.records[j][K_dateAdded]
                => ~recordsAreIdentical(data.records[i], data.records[j])
    /\ \A i \in 1..Len(ls.records) : \A j \in 1..Len(ls.records) :
            ls.records[i].createdAt # ls.records[j].createdAt
                => generateRecordHash(ls.records[i].data)
                       # generateRecordHash(ls.records[j].data)

\* C17: both invocations are between two of their files, each has had one
\* file imported, and the import that ran last met a record stored before
C17_Witness ==
    /\ \A inv \in Invocations :
        /\ calls[inv].pc = "parsing"
        /\ calls[inv].handled = 1
        /\ calls[inv].kind = "processUpdateFiles"
    /\ last.op = "PF.addRecords"
    /\ prev.op = "PF.addRecords"
    /\ prev.ret.importStats.added > 0
    /\ last.ret.importStats.duplicates > 0

(***************************************************************************)
(* Further claims about imports of either database, under SpecImports.     *)
(***************************************************************************)
\* the items of batch that the call did not report as duplicates, in order:
\* reported holds the reported items in the order they were met
RECURSIVE NotReported(_, _)
NotReported(batch, reported) ==
    IF batch = <<>> THEN <<>>
    ELSE IF reported # <<>> /\ Head(batch) = Head(reported).record
    THEN NotReported(Tail(batch), Tail(reported))
    ELSE <<Head(batch)>> \o NotReported(Tail(batch), reported)

\* the positions of the batch whose item LocalStorageDatabase.addRecords took
NewPositions == {j \in 1..Len(last.outcomes) : last.outcomes[j] = "new"}

\* the k-th of them
NthNew(k) ==
    CHOOSE j \in NewPositions : Cardinality({m \in NewPositions : m <= j}) = k

LSAppended == SubSeq(ls.records, Len(last.before) + 1, Len(ls.records))

C23_CreateRejectsExisting ==
    (/\ last.op = "PM.createParser"
     /\ sanitizeName(last.args[1]) \in DOMAIN last.pm.parsers)
        => /\ last.threw
           /\ pm = last.pm
           /\ Persisted(localStorage, parsersKey) = Persisted(last.storage, parsersKey)

\* C24: duplicateParser called for a registered source parser that holds a
\* record, with a new name whose key is unused, returns the sanitised new
\* name without throwing, and when it returns a parser is registered under
\* that key with as many records as the source.
C24_DuplicateCopies ==
    (/\ last.op = "PM.duplicateParser"
     /\ last.args[1] \in DOMAIN last.pm.parsers
     /\ last.pm.parsers[last.args[1]].database.records # <<>>
     /\ trim(last.args[2]) # <<>>
     /\ sanitizeName(last.args[2]) \notin DOMAIN last.pm.parsers)
        => /\ ~last.threw
           /\ last.ret = Str(sanitizeName(last.args[2]))
           /\ sanitizeName(last.args[2]) \in DOMAIN last.atReturn.parsers
           /\ Len(last.atReturn.parsers[sanitizeName(last.args[2])].database.records)
                 = Len(last.pm.parsers[last.args[1]].database.records)

\* C25: deleteParser called for 'default', or when one parser is left,
\* throws and leaves the manager and the storage as they were; the parser
\* 'default' stays registered, and the parser map is never empty.
C25_DeleteKeepsDefaultAndLast ==
    /\ DOMAIN pm.parsers # {}
    /\ last.op = "PM.deleteParser" =>
        /\ (last.args[1] = DefaultParser \/ Cardinality(DOMAIN last.pm.parsers) <= 1)
                => (last.threw /\ pm = last.pm /\ localStorage = last.storage)
        /\ DefaultParser \in DOMAIN last.pm.parsers => DefaultParser \in DOMAIN pm.parsers

\* C25: deleteParser('default') has thrown while another parser is there
C25_Witness ==
    /\ last.op = "PM.deleteParser"
    /\ last.args[1] = DefaultParser
    /\ last.threw
    /\ Cardinality(DOMAIN pm.parsers) >= 2
    /\ pm = last.pm

\* C26: activeParser is the key of a registered parser, and getActiveParser
\* does not return null.
C26_ActiveParserExists ==
    /\ pm.activeParser.t = "string"
    /\ pm.activeParser.s \in DOMAIN pm.parsers
    /\ getActiveParser(pm) # Null

\* C27: the id of every record that getAllRecords returns is the id of
\* exactly one stored record, and updateRecord and deleteRecord called with
\* it return true.
C27_ReturnedIdsUsable ==
    \A name \in DOMAIN pm.parsers :
        \A i \in 1..Len(pm.parsers[name].database.records) :
            \E id \in {getAllRecords(pm.parsers[name].database)[i].o[K_recordId]} :
                /\ Cardinality({m \in 1..Len(pm.parsers[name].database.records) :
                                    pm.parsers[name].database.records[m].id = id}) = 1
                /\ lsUpdateRecord(pm.parsers[name].database, localStorage, name, id,
                                  CheckedUpdate, toISOString(clock)).ret
                /\ lsDeleteRecord(pm.parsers[name].database, localStorage, name, id,
                                  toISOString(clock)).ret

(***************************************************************************)
(* Claims about the hash of a record, checked under SpecCollide.           *)
(***************************************************************************)
\* record has the field names and the values of the data of a stored record
SameContent(record, stored) ==
    \/ record.o = stored.o
    \/ withChecked(record).o = stored.o

\* C28: LocalStorageDatabase.addRecords counts a valid record of the batch
\* as a duplicate only if a record stored before the call, or a record of
\* the batch accepted before it, has the same field names with the same
\* values.
C28_NoFalseDuplicates ==
    LSReturned =>
        \A j \in 1..Len(last.batch) :
            last.outcomes[j] = "duplicate" =>
                \/ \E i \in 1..Len(last.before) :
                        SameContent(last.batch[j], last.before[i].data)
                \/ \E m \in 1..(j - 1) :
                        /\ last.outcomes[m] = "new"
                        /\ last.batch[m] = last.batch[j]

(***************************************************************************)
(* Further claims about recordsAreIdentical, checked under SpecIdentical.  *)
(***************************************************************************)
\* C29: recordsAreIdentical gives the same result with its arguments
\* exchanged, and when it holds of a and b and of b and c, it holds of a
\* and c.
C29_Equivalence ==
    cmp.done =>
        /\ cmp.result = recordsAreIdentical(cmp.record2, cmp.record1)
        /\ cmp.result = TRUE =>
                \A c \in CompareRecords :
                    recordsAreIdentical(cmp.record2, c)
                        => recordsAreIdentical(cmp.record1, c)

\* C29: two records with different field names have been found identical,
\* and a third record, different from both, is identical to the second
C29_Witness ==
    /\ cmp.done
    /\ cmp.result = TRUE
    /\ DOMAIN cmp.record1 # DOMAIN cmp.record2
    /\ \E c \in CompareRecords :
            /\ c # cmp.record1
            /\ c # cmp.record2
            /\ DOMAIN c # DOMAIN cmp.record1
            /\ recordsAreIdentical(cmp.record2, c)

(***************************************************************************)
(* Claims about the card view, checked under SpecCards.                    *)
(***************************************************************************)
\* max(1, ceil(n / recordsPerPage))
LastPage(n) == IF totalPagesOf(n) > 1 THEN totalPagesOf(n) ELSE 1

\* C30: once a handler of the card view has reloaded the cards, currentPage
\* is at least 1 and at most max(1, ceil(|filteredRecords| / recordsPerPage)),
\* and a changePage with a page outside that range has changed neither
\* currentPage nor filteredRecords.
C30_PageInRange ==
    /\ (view.handler.op # "none" /\ view.handler.reloaded) =>
        /\ view.currentPage >= 1
        /\ view.currentPage <= LastPage(Len(filteredRecords(view, data)))
    /\ (/\ view.handler.op = "changePage"
        /\ \/ view.handler.arg.n < 1
           \/ view.handler.arg.n > LastPage(view.handler.shown)) =>
        /\ ~view.handler.reloaded
        /\ view.currentPage = view.handler.page
        /\ Len(filteredRecords(view, data)) = view.handler.shown

=============================================================================
